---- MODULE Spec2Model ----
(***************************************************************************)
(* Rocket.Chat channel plugin: the inbound message pipeline.               *)
(*                                                                         *)
(* JavaScript strings are modelled as sequences of one-character strings,  *)
(* so that trim, toLowerCase, prefix stripping and substring tests are     *)
(* computed rather than assumed.  The values undefined/null and the JSON   *)
(* booleans are one-element sequences holding a reserved word.             *)
(***************************************************************************)
EXTENDS Integers, Sequences, FiniteSets, TLC

VARIABLES
    cfg,            \* the account's RocketChatConfig (dmPolicy, allowFrom, showThinking)
    req,            \* the HTTP request (or direct call) being served
    pc,             \* position of the request in its handler / in handleRocketChatMessage
    data,           \* the payload handed to handleRocketChatMessage (parsedBody / req.body)
    resp,           \* responses written to res for this request, in order
    events,         \* pipeline steps taken for this message, in order
    sent,           \* provider HTTP calls issued for this message, in order
    logs,           \* log lines written for this request, in order
    outcome,        \* how handleRocketChatMessage ended: "none", "returned", "threw"
    results,        \* outcomes ("ok" / "failed") of the provider calls that completed, in order
    blocks,         \* number of reply blocks the host dispatcher has emitted
    currentLogger,  \* the module-level logger slot
    emitted,        \* the reply blocks the host dispatcher has handed to deliver, in order
    delivered,      \* how each deliver callback that has finished settled, in order
    sendIn,         \* arguments of a sendMessage call made through the exported API
    sendOut,        \* what that call's promise settled with ("none" before)
    listener,       \* the account's webhook listener: routes, stop flag, abort signal
    history,        \* what was served before: entry point, outcome; of a sendMessage call also
                    \* its arguments, the outcome of its provider call and its result
    ctx,            \* what the pipeline handed to the host: route peer, envelope, last route
    requireMention, \* result of groups.resolveRequireMention ("none" before the call)
    activeCardsByTarget, \* the module-level map from accountId:conversationId to a card id
    mdIn,           \* markdown detection harness: text and options.useMarkdown
    mdOut,          \* markdown detection harness: result ("none" before the call)
    allowIn,        \* allow-list evaluation harness: raw allowFrom list
    senderIn,       \* allow-list evaluation harness: sender id
    allowOut,       \* allow-list evaluation harness: result ("none" before the call)
    normOut         \* allow-list evaluation harness: the normalized list the result was computed from

vars == <<cfg, req, pc, data, resp, events, sent, results, logs, outcome, blocks,
          currentLogger, emitted, delivered, sendIn, sendOut, listener, history,
          ctx, requireMention, activeCardsByTarget, mdIn, mdOut,
          allowIn, senderIn, allowOut, normOut>>

reqVars == <<req, pc, data, resp, events, sent, results, logs, outcome, blocks, currentLogger,
             emitted, delivered, sendIn, sendOut, ctx, requireMention>>
hostVars == <<ctx, requireMention>>
auxVars == <<activeCardsByTarget, mdIn, mdOut>>
dispVars == <<emitted, delivered>>
apiVars == <<sendIn, sendOut>>
lsnVars == <<listener, history>>
allowVars == <<allowIn, senderIn, allowOut, normOut>>

----------------------------------------------------------------------------
(* Bounds *)

MaxAllowLen == 2     \* longest raw allowFrom list of the evaluation harness
MaxBlocks == 2       \* most reply blocks the host dispatcher emits per message
MaxRequests == 2     \* most requests one listener run serves one after the other
MaxTextLen == 2      \* longest text, over the detection alphabet, given to detectMarkdown

----------------------------------------------------------------------------
(* JavaScript values and string primitives *)

NoVal == <<"undefined">>          \* undefined / null / absent field
JsTrue == <<"true">>              \* the JSON boolean true
JsFalse == <<"false">>            \* the JSON boolean false

Truthy(v) == v \notin {NoVal, JsFalse, <<>>}

IsWhite(c) == c \in {" ", "\n"}

RECURSIVE TrimStart(_)
TrimStart(s) ==
    IF s = <<>> THEN s
    ELSE IF IsWhite(Head(s)) THEN TrimStart(Tail(s)) ELSE s

RECURSIVE TrimEnd(_)
TrimEnd(s) ==
    IF s = <<>> THEN s
    ELSE IF IsWhite(s[Len(s)]) THEN TrimEnd(SubSeq(s, 1, Len(s) - 1)) ELSE s

Trim(s) == TrimEnd(TrimStart(s))

LowerChar(c) ==
    CASE c = "A" -> "a" [] c = "C" -> "c" [] c = "E" -> "e" [] c = "H" -> "h"
      [] c = "K" -> "k" [] c = "O" -> "o" [] c = "R" -> "r" [] c = "T" -> "t"
      [] c = "U" -> "u" [] c = "X" -> "x" [] OTHER -> c

ToLower(s) == [i \in 1..Len(s) |-> LowerChar(s[i])]

StartsWith(s, p) == Len(s) >= Len(p) /\ SubSeq(s, 1, Len(p)) = p

StartsWithCI(s, p) == Len(s) >= Len(p) /\ ToLower(SubSeq(s, 1, Len(p))) = p

Contains(s, p) ==
    \E i \in 1..(Len(s) + 1) : i + Len(p) - 1 <= Len(s) /\ SubSeq(s, i, i + Len(p) - 1) = p

\* String(value) inside a template literal
Render(v) == IF v = NoVal THEN <<"u","n","d","e","f","i","n","e","d">> ELSE v

----------------------------------------------------------------------------
(* Authorization helpers *)

PrefixRocketchat == <<"r","o","c","k","e","t","c","h","a","t",":">>
PrefixRc == <<"r","c",":">>
PrefixRocket == <<"r","o","c","k","e","t",":">>

\* variant: provider prefixes are stripped until none is left
RECURSIVE StripProviderPrefixRepeated(_)
StripProviderPrefixRepeated(s) ==
    IF StartsWithCI(s, PrefixRocketchat) THEN StripProviderPrefixRepeated(SubSeq(s, Len(PrefixRocketchat) + 1, Len(s)))
    ELSE IF StartsWithCI(s, PrefixRc) THEN StripProviderPrefixRepeated(SubSeq(s, Len(PrefixRc) + 1, Len(s)))
    ELSE IF StartsWithCI(s, PrefixRocket) THEN StripProviderPrefixRepeated(SubSeq(s, Len(PrefixRocket) + 1, Len(s)))
    ELSE s

\* value.replace(/^(rocketchat|rc|rocket):/i, "")
StripProviderPrefix(s) ==
    IF StartsWithCI(s, PrefixRocketchat) THEN SubSeq(s, Len(PrefixRocketchat) + 1, Len(s))
    ELSE IF StartsWithCI(s, PrefixRc) THEN SubSeq(s, Len(PrefixRc) + 1, Len(s))
    ELSE IF StartsWithCI(s, PrefixRocket) THEN SubSeq(s, Len(PrefixRocket) + 1, Len(s))
    ELSE s

NotBlank(s) == s # <<>>
NotStar(s) == s # <<"*">>

TrimmedEntries(list) ==
    SelectSeq([i \in 1..Len(list) |-> Trim(list[i])], NotBlank)

InSeq(x, s) == \E i \in 1..Len(s) : s[i] = x

\* normalizeAllowFrom(undefined): nothing has been normalized
NoAllow == [entries |-> <<>>, entriesLower |-> <<>>, hasWildcard |-> FALSE, hasEntries |-> FALSE]

normalizeAllowFrom(list) ==
    LET entries == TrimmedEntries(list)
        noStar == SelectSeq(entries, NotStar)
        normalized == [i \in 1..Len(noStar) |-> StripProviderPrefix(noStar[i])]
    IN  [ entries |-> normalized,
          entriesLower |-> [i \in 1..Len(normalized) |-> ToLower(normalized[i])],
          hasWildcard |-> InSeq(<<"*">>, entries),
          hasEntries |-> Len(entries) > 0 ]

\* variant: the sender id is compared without lower-casing it
isSenderAllowedCaseSensitive(allow, senderId) ==
    IF ~allow.hasEntries THEN TRUE
    ELSE IF allow.hasWildcard THEN TRUE
    ELSE IF Truthy(senderId) /\ InSeq(senderId, allow.entriesLower) THEN TRUE
    ELSE FALSE

isSenderAllowed(allow, senderId) ==
    IF ~allow.hasEntries THEN TRUE
    ELSE IF allow.hasWildcard THEN TRUE
    ELSE IF Truthy(senderId) /\ InSeq(ToLower(senderId), allow.entriesLower) THEN TRUE
    ELSE FALSE

----------------------------------------------------------------------------
(* Configuration and inbound payloads *)

AuthToken == <<"T">>                     \* config.authToken (required, non-empty)
WrongToken == <<"W">>
WebhookUrl == "config.webhookUrl"        \* config.webhookUrl (required)
InboundUrl == "https://host/hooks/T"     \* the URL the inbound request came in on

U1 == <<"u","1">>
U2 == <<"U","2">>
ChanId == <<"c","1">>

DmPolicies == {"unset", "open", "pairing", "allowlist"}
ShowThinkingValues == {"unset", "true", "false"}
AllowLists == { <<>>, << <<"u","2">> >>, << <<"*">> >> }

\* open and pairing are paired with the restrictive list, the one they have to ignore
\* groupPolicy is read by resolveRequireMention only: it varies in the accounts that group
\* policy resolution is exercised with (GateConfigs) and is left unset here
Configs ==
    {c \in [webhookUrl : {WebhookUrl}, dmPolicy : DmPolicies, groupPolicy : {"unset"},
            allowFrom : AllowLists, showThinking : ShowThinkingValues] :
        c.dmPolicy \in {"open", "pairing"} => c.allowFrom = << <<"u","2">> >>}

\* an account that sets only the required fields
DefaultConfig == [webhookUrl |-> WebhookUrl, dmPolicy |-> "unset", groupPolicy |-> "unset",
                  allowFrom |-> <<>>, showThinking |-> "unset"]

Tokens == {AuthToken, WrongToken, NoVal}
Bots == {JsFalse, JsTrue}
ChannelNames == {NoVal, <<"@","u","1">>, <<"g","e","n">>}
UserIds == {NoVal, U1, U2}
Texts == {NoVal, <<>>, <<" ">>, <<"h","i">>}

\* RocketChatInboundMessage, restricted to the fields the pipeline reads
Payloads == [token : Tokens, bot : Bots, channel_id : {ChanId}, channel_name : ChannelNames,
             user_id : UserIds, text : Texts]

NoFields == [token |-> NoVal, bot |-> NoVal, channel_id |-> NoVal, channel_name |-> NoVal,
             user_id |-> NoVal, text |-> NoVal]

ContentTypes == {"application/json", "application/x-www-form-urlencoded", "text/plain"}
Methods == {"GET", "POST", "PUT"}

\* Request bodies as sent on the wire:
\*   json        JSON text of an object            form         key=value pairs
\*   jsonnull    the JSON text null                formpayload  payload=<JSON object text>
\*   text        neither JSON nor key=value pairs  formbadjson  payload=<text that is not JSON>
OtherBodies == [kind : {"jsonnull", "formbadjson", "text"}, fields : {NoFields}]

\* payloads of a direct message from a user, used where the encoding is what varies
SamplePayloads == {p \in Payloads : p.bot = JsFalse /\ p.channel_name = NoVal}

\* content-type and body of the POSTs the registered route receives
WireRequests ==
    [ct : {"application/json"}, body : [kind : {"json"}, fields : Payloads]]
    \cup [ct : {"application/x-www-form-urlencoded"}, body : [kind : {"form", "formpayload"}, fields : SamplePayloads]]
    \cup [ct : {"text/plain"}, body : [kind : {"json", "form", "formpayload"}, fields : SamplePayloads]]
    \cup [ct : {"application/json"}, body : [kind : {"form", "formpayload"}, fields : SamplePayloads]]
    \cup [ct : {"application/x-www-form-urlencoded"}, body : [kind : {"json"}, fields : SamplePayloads]]
    \cup [ct : ContentTypes, body : OtherBodies]

\* req.body as an Express-style framework hands it to the handlers of webhook-handler.ts
FrameworkBodies == [kind : {"object"}, fields : Payloads] \cup [kind : {"undefined"}, fields : {NoFields}]

NoReq == [entry |-> "none", method |-> "none", ct |-> "none",
          body |-> [kind |-> "none", fields |-> NoFields], sessionWebhook |-> ""]

----------------------------------------------------------------------------
(* Body parsing in the registered route handler *)

\* URLSearchParams / Object.fromEntries: every value arrives as a string
FormValue(v) ==
    IF v = JsFalse THEN <<"f","a","l","s","e">>
    ELSE IF v = JsTrue THEN <<"t","r","u","e">>
    ELSE v

FormFields(f) == [k \in DOMAIN f |-> FormValue(f[k])]

Thrown == [tag |-> "throw", obj |-> NoFields]
NullValue == [tag |-> "null", obj |-> NoFields]
Obj(f) == [tag |-> "obj", obj |-> f]

\* JSON.parse(body)
JsonParse(body) ==
    IF body.kind = "json" THEN Obj(body.fields)
    ELSE IF body.kind = "jsonnull" THEN NullValue
    ELSE Thrown

\* Object.fromEntries(new URLSearchParams(body).entries()), then the payload unwrapping
FormParse(body) ==
    IF body.kind = "form" THEN Obj(FormFields(body.fields))
    ELSE IF body.kind = "formpayload" THEN Obj(body.fields)
    ELSE IF body.kind = "formbadjson" THEN Thrown
    ELSE Obj(NoFields)

ParseBody(ct, body) ==
    IF ct = "application/json" THEN JsonParse(body)
    ELSE IF ct = "application/x-www-form-urlencoded" THEN FormParse(body)
    ELSE IF JsonParse(body).tag # "throw" THEN JsonParse(body)
    ELSE FormParse(body)

----------------------------------------------------------------------------
(* Outbound delivery *)

\* the backquote character (written as a word: the character itself cannot appear here)
Backquote == "bq"

MarkdownLeaders == {"#", "*", ">", "-"}
MarkdownChars == {"*", "_", Backquote, "#", "[", "]"}

\* variant: only the characters of the second alternative are looked for, anywhere
detectMarkdownNoLeaders(text, useMarkdown) ==
    LET hasMarkdown ==
            \/ \E i \in 1..Len(text) : text[i] \in {"*", "_", Backquote, "#", "[", "]"}
            \/ Contains(text, <<"\n">>)
    IN  useMarkdown # "false" /\ (useMarkdown = "true" \/ hasMarkdown)

\* the markdown regex test (a leader character first, or a markdown character anywhere),
\* or an embedded newline; then the useMarkdown option
detectMarkdown(text, useMarkdown) ==
    LET hasMarkdown ==
            \/ (Len(text) > 0 /\ text[1] \in MarkdownLeaders)
            \/ \E i \in 1..Len(text) : text[i] \in MarkdownChars
            \/ \E i \in 1..Len(text) : text[i] = "\n"
    IN  useMarkdown # "false" /\ (useMarkdown = "true" \/ hasMarkdown)

Mention(atUserId) == <<" ", "@">> \o atUserId

\* the text of the body sendBySession posts
SessionBodyText(text, atUserId, useMarkdown) ==
    LET first == IF detectMarkdown(text, useMarkdown) /\ Truthy(atUserId)
                 THEN text \o Mention(atUserId) ELSE text
    IN  IF Truthy(atUserId) THEN first \o Mention(atUserId) ELSE first

\* options.sessionWebhook of a sendMessage call: a URL, the empty string, or not given
AbsentWebhook == "undefined"
SessionWebhookGiven(w) == w # "" /\ w # AbsentWebhook

\* SendMessageOptions together with sessionWebhook; log tells whether a logger is passed
Options(sessionWebhook, atUserId, useMarkdown, log) ==
    [sessionWebhook |-> sessionWebhook, atUserId |-> atUserId, useMarkdown |-> useMarkdown,
     log |-> log]

\* the headers both senders put on the request
JsonHeaders == {"Content-Type"}

\* variant: the reply is posted to the URL the inbound request came in on
SessionCallToInbound(config, sessionWebhook, text, options) ==
    [via |-> "session", method |-> "POST", url |-> sessionWebhook, headers |-> JsonHeaders,
     text |-> SessionBodyText(text, options.atUserId, options.useMarkdown)]

\* the axios call of sendBySession: a POST to config.webhookUrl, sessionWebhook is not used
SessionCall(config, sessionWebhook, text, options) ==
    [via |-> "session", method |-> "POST", url |-> config.webhookUrl, headers |-> JsonHeaders,
     text |-> SessionBodyText(text, options.atUserId, options.useMarkdown)]

\* the axios call of sendProactive: a POST of the text as given to config.webhookUrl
ProactiveCall(config, target, text, options) ==
    [via |-> "proactive", method |-> "POST", url |-> config.webhookUrl, headers |-> JsonHeaders,
     text |-> text]

\* variant: the path is chosen by the text (markdown goes the session path)
MessageCallByText(config, conversationId, text, options) ==
    IF detectMarkdown(text, options.useMarkdown)
    THEN SessionCall(config, options.sessionWebhook, text, options)
    ELSE ProactiveCall(config, conversationId, text, options)

\* sendMessage: the session path when options.sessionWebhook is truthy, else proactive
MessageCall(config, conversationId, text, options) ==
    IF SessionWebhookGiven(options.sessionWebhook)
    THEN SessionCall(config, options.sessionWebhook, text, options)
    ELSE ProactiveCall(config, conversationId, text, options)

\* an entry of sent: the provider call, with what it was made for and the target and
\* options.atUserId the sender was called with
SendRecord(purpose, to, text, options, call) ==
    [purpose |-> purpose, to |-> to, atUserId |-> options.atUserId, input |-> text,
     via |-> call.via, method |-> call.method, url |-> call.url, headers |-> call.headers,
     text |-> call.text]

\* abbreviations of the fixed notice texts; the denial text keeps its newlines and backquotes
DenialText(senderId) == <<"!", "\n", "\n", "I", "D", ":", " ", Backquote>> \o Render(senderId) \o <<Backquote, "\n">>
ThinkingText == <<"T", "h", "i", "n", "k", "i", "n", "g", ".", ".", ".">>

\* reply blocks the host dispatcher may hand to deliver
ReplyBlocks == { [markdown |-> <<"#", "h">>, text |-> <<"o", "k">>],
                 [markdown |-> NoVal, text |-> <<"o", "k">>],
                 [markdown |-> NoVal, text |-> NoVal] }

\* variant: the plain text is preferred to the markdown
BlockTextPlainFirst(b) == IF Truthy(b.text) THEN b.text ELSE b.markdown

\* payload.markdown || payload.text
BlockText(b) == IF Truthy(b.markdown) THEN b.markdown ELSE b.text

----------------------------------------------------------------------------
(* The decisions of the message handler *)

\* variant: the text is taken untrimmed
extractMessageContentUntrimmed(d) == IF d.text = NoVal THEN <<>> ELSE d.text

\* data.text?.trim() || "" 
extractMessageContent(d) == IF d.text = NoVal THEN <<>> ELSE Trim(d.text)

\* variant: the bot flag is not looked at
IsBotMessageNever(d) == FALSE

\* if (data.bot): any truthy value of the field
IsBotMessage(d) == Truthy(d.bot)

\* variant: every message is treated as a direct message
isDirectMsgAlways(d) == TRUE

\* !data.channel_name || data.channel_name.startsWith("@")
isDirectMsg(d) == ~Truthy(d.channel_name) \/ StartsWith(d.channel_name, <<"@">>)

\* variant: the handler does not verify the token
HandleTokenOkUnchecked(d) == TRUE

\* data.token !== rocketchatConfig.authToken
HandleTokenOk(d) == d.token = AuthToken

\* rocketchatConfig.dmPolicy || "open" 
EffectiveDmPolicy(c) == IF c.dmPolicy = "unset" THEN "open" ELSE c.dmPolicy

\* variant: the policy is compared with a misspelt name, so the branch never blocks
dmBlockedMisspelt(c, d) ==
    /\ isDirectMsg(d)
    /\ EffectiveDmPolicy(c) = "allowList"
    /\ ~isSenderAllowed(normalizeAllowFrom(c.allowFrom), d.user_id)

\* the allowlist branch: the direct message is blocked
dmBlocked(c, d) ==
    /\ isDirectMsg(d)
    /\ EffectiveDmPolicy(c) = "allowlist"
    /\ ~isSenderAllowed(normalizeAllowFrom(c.allowFrom), d.user_id)

\* variant: replies always go to the channel
ReplyTargetChannelAlways(d) == d.channel_id

\* isDirect ? senderId : channelId
ReplyTarget(d) == IF isDirectMsg(d) THEN d.user_id ELSE d.channel_id

\* !isDirect ? senderId : null
AtUser(d) == IF isDirectMsg(d) THEN NoVal ELSE d.user_id

\* variant: the failed denial send is rethrown
DenialSendOutcomeRethrown(ok) == IF ok THEN "returned" ELSE "threw"

\* the catch around the denial notice: a failed send is logged, nothing is rethrown
DenialSendOutcome(ok) == "returned"

\* variant: any message that names a channel is routed as a group message
RoutePeerByNameOnly(d) ==
    [kind |-> IF d.channel_name = NoVal THEN "dm" ELSE "group",
     id |-> IF isDirectMsg(d) THEN d.user_id ELSE d.channel_id]

\* peer of resolveAgentRoute: { kind: isDirect ? "dm" : "group", id: isDirect ? senderId : channelId }
RoutePeer(d) ==
    [kind |-> IF isDirectMsg(d) THEN "dm" ELSE "group",
     id |-> IF isDirectMsg(d) THEN d.user_id ELSE d.channel_id]

\* chatType / ChatType: isDirect ? "direct" : "group"
ChatType(d) == IF isDirectMsg(d) THEN "direct" ELSE "group"

\* variant: under pairing the message is flagged as not yet authorized
CommandAuthorizedPairingPending(c, d) ==
    IF isDirectMsg(d) /\ EffectiveDmPolicy(c) = "pairing" THEN "false" ELSE "true"

\* commandAuthorized: initialised to true, and set to true again in the pairing and open
\* branches; the allowlist branch returns before the context is built when it blocks
CommandAuthorized(c, d) == "true"

\* nothing has been handed to the host yet
NoCtx == [peerKind |-> "none", peerId |-> NoVal, chatType |-> "none", ChatType |-> "none",
          From |-> NoVal, To |-> NoVal, OriginatingTo |-> NoVal, SenderId |-> NoVal,
          CommandAuthorized |-> "none", lastRouteTo |-> NoVal]

\* the arguments of the host calls made up to the first one that raises: the peer of
\* resolveAgentRoute, the chatType of formatInboundEnvelope, the fields of
\* finalizeInboundContext, and updateLastRoute.to of recordInboundSession
HostContext(c, d, failAt) ==
    LET routed == [NoCtx EXCEPT !.peerKind = RoutePeer(d).kind, !.peerId = RoutePeer(d).id]
        formatted == [routed EXCEPT !.chatType = ChatType(d)]
    IN  CASE failAt \in {"route", "store"} -> routed
          [] failAt = "envelope" -> formatted
          [] OTHER -> [formatted EXCEPT !.ChatType = ChatType(d),
                                        !.From = ReplyTarget(d),
                                        !.To = ReplyTarget(d),
                                        !.OriginatingTo = ReplyTarget(d),
                                        !.SenderId = d.user_id,
                                        !.CommandAuthorized = CommandAuthorized(c, d),
                                        !.lastRouteTo = ReplyTarget(d)]

\* await recordInboundSession(...): "ok" resolves, "callback" calls onRecordError and
\* resolves, "reject" rejects the awaited promise, which nothing in the handler catches
RecordOutcomes == {"ok", "callback", "reject"}
AfterRecord(r) == IF r = "reject" THEN "threw" ELSE "continue"

----------------------------------------------------------------------------
(* Validation at the HTTP entry points *)

\* a response: status code, body, and the Content-Type and Allow headers ("none": not set)
RH(status, body, ctype, allow) == [status |-> status, body |-> body, ctype |-> ctype, allow |-> allow]

\* a JSON response without an Allow header
R(status, body) == RH(status, body, "application/json", "none")

RInvalidJson == R(400, "{error: Bad Request: Invalid JSON}")
RUnauthorizedToken == R(401, "{error: Unauthorized: Invalid token}")
RMissingFields == R(400, "{error: Bad Request: Missing required fields}")
RAck == R(200, "{text: '', response_type: ephemeral}")
RInternalError == R(500, "{error: Internal Server Error}")
RActive == RH(200, "Rocket.Chat webhook is active", "text/plain", "none")
RMethodNotAllowed == RH(405, "{error: Method Not Allowed}", "application/json", "GET, POST")
RInteractiveUnauthorized == R(401, "{error: Unauthorized}")
RInteractiveMissing == R(400, "{error: Missing required fields}")
RInteractiveAck == R(200, "{text: '', ephemeral: true}")

\* variant: only POST is served, GET is refused like any other method
MethodDecisionPostOnly(m) == IF m = "POST" THEN "read" ELSE "not_allowed"

\* the method tests at the top of the route handler: GET is answered at once, any method
\* other than POST is refused, POST goes on to read the body
MethodDecision(m) ==
    IF m = "GET" THEN "active"
    ELSE IF m # "POST" THEN "not_allowed"
    ELSE "read"

\* getConfig(cfg).groupPolicy !== "open"
resolveRequireMention(c) == IF c.groupPolicy # "open" THEN "true" ELSE "false"

\* variant: the required fields are checked before the token
GatewayDecisionFieldsFirst(ct, body) ==
    LET parsed == ParseBody(ct, body)
    IN  IF parsed.tag # "obj" THEN RInvalidJson
        ELSE IF ~Truthy(parsed.obj.user_id) \/ ~Truthy(parsed.obj.text) THEN RMissingFields
        ELSE IF parsed.obj.token # AuthToken THEN RUnauthorizedToken
        ELSE RAck

\* the req.on("end") callback of the registered route: which response it writes
GatewayDecision(ct, body) ==
    LET parsed == ParseBody(ct, body)
    IN  IF parsed.tag # "obj" THEN RInvalidJson
        ELSE IF parsed.obj.token # AuthToken THEN RUnauthorizedToken
        ELSE IF ~Truthy(parsed.obj.user_id) \/ ~Truthy(parsed.obj.text) THEN RMissingFields
        ELSE RAck

\* variant: the acknowledgment is left for after the processing
GatewayAckDeferred(written) == written

\* res.end(...) of the acknowledgment comes before setTimeout(...)
GatewayAck(written) == Append(written, RAck)

\* rocketChatWebhookHandler before it calls the pipeline: "pass", "threw" or a response
WebhookDecision(body) ==
    IF body.kind = "undefined" THEN "threw"
    ELSE IF body.fields.token # AuthToken THEN "401"
    ELSE IF ~Truthy(body.fields.token) \/ ~Truthy(body.fields.user_id) \/ ~Truthy(body.fields.text)
         THEN "400"
    ELSE "pass"

\* rocketChatInteractiveHandler before it calls the pipeline
InteractiveDecision(body) ==
    IF body.kind = "undefined" THEN "threw"
    ELSE IF body.fields.token # AuthToken THEN "401"
    ELSE IF ~Truthy(body.fields.user_id) \/ ~Truthy(body.fields.text) THEN "400"
    ELSE "pass"

Log(level, msg, value) == [level |-> level, msg |-> msg, value |-> value]
Masked == <<"[MASKED]">>

\* maskSensitiveData: of the fields of the payload only token matches a sensitive key
maskSensitiveData(d) == [d EXCEPT !.token = Masked]

\* variant: the continuity marker is read from the session store before the route is resolved
PipelineEventsStoreFirst(failAt) ==
    CASE failAt = "route" -> <<"store_read", "route">>
      [] failAt = "store" -> <<"store_read">>
      [] failAt = "envelope" -> <<"store_read", "route", "envelope">>
      [] OTHER -> <<"store_read", "route", "envelope", "record">>

\* the host calls made between the authorization gate and the awaited session record;
\* failAt names the first one that raises ("none": all return)
HostFailPoints == {"none", "route", "store", "envelope"}
PipelineEvents(failAt) ==
    CASE failAt = "route" -> <<"route">>
      [] failAt = "store" -> <<"route", "store_read">>
      [] failAt = "envelope" -> <<"route", "store_read", "envelope">>
      [] OTHER -> <<"route", "store_read", "envelope", "record">>

\* sendMessage catches a failed provider call, logs it through options.log (when one is
\* passed) and returns {ok: false, error}
SendMessageLogs(l, ok, log) ==
    IF ok \/ ~log THEN l ELSE Append(l, Log("error", "Send message failed", NoVal))
CallResult(ok) == IF ok THEN "ok" ELSE "failed"

\* err.message of a failed provider call
ErrMessage == <<"E">>

\* variant: sendMessage lets the failure of the provider call through
sendMessageResultRethrown(ok) ==
    IF ok THEN [settled |-> "resolved", ok |-> TRUE, error |-> NoVal]
    ELSE [settled |-> "rejected", ok |-> FALSE, error |-> ErrMessage]

\* what the promise of sendMessage settles with: always a DeliveryResult
sendMessageResult(ok) ==
    [settled |-> "resolved", ok |-> ok, error |-> IF ok THEN NoVal ELSE ErrMessage]

\* the deliver callback: it rejects (after logging) only when its sendMessage call rejects
DeliverOutcome(ok) == sendMessageResult(ok).settled
DeliverLogs(l, ok) ==
    IF DeliverOutcome(ok) = "rejected" THEN Append(l, Log("error", "Reply failed", NoVal)) ELSE l

\* variant: the thinking notice is sent only when showThinking is set to true
ThinkingEnabledOnlyTrue(c) == c.showThinking = "true"

\* rocketchatConfig.showThinking !== false
ThinkingEnabled(c) == c.showThinking # "false"

\* variant: deliver starts the send and returns without awaiting it
AfterSendStartedNoAwait == "h_dispatch"

\* deliver awaits its sendMessage call: the dispatcher gets control back when it returns
AfterSendStarted == "h_deliver"

\* the options handleRocketChatMessage passes to sendBySession for the denial notice
\* and to sendMessage for the thinking notice and the reply blocks
DenialOptions == Options(AbsentWebhook, NoVal, "unset", TRUE)
PipelineOptions(d, sessionWebhook) == Options(sessionWebhook, AtUser(d), "unset", TRUE)

----------------------------------------------------------------------------
(* Initial state *)

\* no sendMessage call through the exported API has been made
NoSend == [to |-> NoVal, text |-> NoVal, options |-> Options(AbsentWebhook, NoVal, "unset", FALSE)]

\* the promise of that call has not settled
NoResult == [settled |-> "none", ok |-> FALSE, error |-> NoVal]

\* the listener of the account: which routes the start registered with the host router and
\* has not unregistered, whether its stopped flag is set, whether its abort signal has
\* fired, how the promise of startAccount settled, and which start's function is stored
\* under the account id in the global map of unregister functions ("none": no entry).
\* "again" is a second startAccount of the same account id, with its own closure (stopped
\* flag, abort signal, registrations); the global map has one slot for both
Routes == {"webhook", "health"}
NotAgain == [started |-> FALSE, stopped |-> FALSE, aborted |-> FALSE, routes |-> {}]
NotStarted == [started |-> FALSE, stopped |-> FALSE, aborted |-> FALSE, routes |-> {},
               unregisterFn |-> "none", result |-> "none", again |-> NotAgain]
Running == [started |-> TRUE, stopped |-> FALSE, aborted |-> FALSE, routes |-> Routes,
            unregisterFn |-> "first", result |-> "resolved", again |-> NotAgain]

\* the module as loaded: the logger slot is undefined and the map is empty (no function of
\* the module reads or writes the map)
ModuleInit ==
    /\ currentLogger = FALSE
    /\ activeCardsByTarget = {}

\* the markdown detection harness is idle
NoMarkdownIn == [text |-> <<>>, useMarkdown |-> "unset"]

InitRequest ==
    /\ req = NoReq
    /\ pc = "idle"
    /\ data = NoFields
    /\ resp = <<>>
    /\ events = <<>>
    /\ sent = <<>>
    /\ results = <<>>
    /\ logs = <<>>
    /\ outcome = "none"
    /\ blocks = 0
    /\ emitted = <<>>
    /\ delivered = <<>>
    /\ sendIn = NoSend
    /\ sendOut = NoResult
    /\ ctx = NoCtx
    /\ requireMention = "none"

Init ==
    /\ cfg \in Configs
    /\ InitRequest
    /\ listener = Running
    /\ history = <<>>
    /\ ModuleInit
    /\ mdIn = NoMarkdownIn
    /\ mdOut = "none"
    /\ allowIn = <<>>
    /\ senderIn = NoVal
    /\ allowOut = "none"
    /\ normOut = NoAllow

----------------------------------------------------------------------------
(* Entry points *)

\* the handler registered on the webhook route, up to the point where it waits for the body
GatewayRequest(m, ct, body) ==
    /\ pc = "idle"
    /\ "webhook" \in listener.routes \cup listener.again.routes
    /\ req' = [entry |-> "gateway", method |-> m, ct |-> ct, body |-> body,
               sessionWebhook |-> InboundUrl]
    /\ IF MethodDecision(m) = "active"
       THEN /\ resp' = Append(resp, RActive)
            /\ logs' = Append(logs, Log("debug", "Received GET request for verification", NoVal))
            /\ pc' = "done"
       ELSE IF MethodDecision(m) = "not_allowed"
       THEN /\ resp' = Append(resp, RMethodNotAllowed)
            /\ logs' = Append(logs, Log("debug", "Method not allowed", NoVal))
            /\ pc' = "done"
       ELSE /\ pc' = "body"
            /\ UNCHANGED <<resp, logs>>
    /\ UNCHANGED <<cfg, data, events, sent, results, outcome, blocks, currentLogger, dispVars, apiVars, lsnVars, allowVars, hostVars, auxVars>>

\* groups.resolveRequireMention, called by the host's mention gating
ResolveRequireMention ==
    /\ pc = "idle"
    /\ req' = [NoReq EXCEPT !.entry = "resolveRequireMention"]
    /\ requireMention' = resolveRequireMention(cfg)
    /\ pc' = "done"
    /\ UNCHANGED <<cfg, data, resp, events, sent, results, logs, outcome, blocks, currentLogger,
                   dispVars, apiVars, lsnVars, allowVars, ctx, auxVars>>

\* req.on("end"): parse, validate, respond, and schedule the pipeline on acceptance
GatewayEnd ==
    /\ pc = "body"
    /\ LET decision == GatewayDecision(req.ct, req.body)
       IN  IF decision = RAck
           THEN /\ resp' = GatewayAck(resp)
                /\ data' = ParseBody(req.ct, req.body).obj
                /\ pc' = "timer"
                /\ UNCHANGED logs
           ELSE /\ resp' = Append(resp, decision)
                /\ logs' = IF decision = RInvalidJson
                           THEN logs \o <<Log("error", "Error parsing request", NoVal),
                                          Log("error", "Raw body", Render(req.body.fields.token))>>
                           ELSE IF decision = RUnauthorizedToken
                           THEN Append(logs, Log("error", "Unauthorized webhook request - token mismatch", NoVal))
                           ELSE Append(logs, Log("error", "Missing required fields in webhook request", NoVal))
                /\ pc' = "done"
                /\ UNCHANGED data
    /\ UNCHANGED <<cfg, req, events, sent, results, outcome, blocks, currentLogger, dispVars, apiVars, lsnVars, allowVars, hostVars, auxVars>>

\* the setTimeout(..., 0) callback: from here on only parsedBody and the request line are used
TimerFire ==
    /\ pc = "timer"
    /\ pc' = "h_start"
    /\ req' = [req EXCEPT !.ct = "none", !.body = [kind |-> "object", fields |-> data]]
    /\ UNCHANGED <<cfg, data, resp, events, sent, results, logs, outcome, blocks, currentLogger, dispVars, apiVars, lsnVars, allowVars, hostVars, auxVars>>

\* rocketChatWebhookHandler, up to its call of handleRocketChatMessage
WebhookRequest(body) ==
    /\ pc = "idle"
    /\ req' = [entry |-> "webhook", method |-> "POST", ct |-> "none", body |-> body,
               sessionWebhook |-> InboundUrl]
    /\ LET decision == WebhookDecision(body)
           incoming == Append(logs, Log("debug", "Incoming webhook request", Render(body.fields.token)))
       IN  CASE decision = "pass" ->
                  /\ data' = body.fields
                  /\ pc' = "h_start"
                  /\ logs' = incoming
                  /\ UNCHANGED resp
             [] decision = "401" ->
                  /\ resp' = Append(resp, RUnauthorizedToken)
                  /\ logs' = Append(incoming, Log("error", "Unauthorized webhook request - token mismatch", NoVal))
                  /\ pc' = "done"
                  /\ UNCHANGED data
             [] decision = "400" ->
                  /\ resp' = Append(resp, RMissingFields)
                  /\ logs' = Append(incoming, Log("error", "Missing required fields in webhook request", NoVal))
                  /\ pc' = "done"
                  /\ UNCHANGED data
             [] OTHER ->
                  /\ resp' = Append(resp, RInternalError)
                  /\ logs' = Append(incoming, Log("error", "Error processing webhook", NoVal))
                  /\ pc' = "done"
                  /\ UNCHANGED data
    /\ UNCHANGED <<cfg, events, sent, results, outcome, blocks, currentLogger, dispVars, apiVars, lsnVars, allowVars, hostVars, auxVars>>

\* rocketChatInteractiveHandler, up to its call of handleRocketChatMessage
InteractiveRequest(body) ==
    /\ pc = "idle"
    /\ req' = [entry |-> "interactive", method |-> "POST", ct |-> "none", body |-> body,
               sessionWebhook |-> InboundUrl]
    /\ LET decision == InteractiveDecision(body)
           incoming == Append(logs, Log("debug", "Processing interactive message request", NoVal))
       IN  CASE decision = "pass" ->
                  /\ data' = body.fields
                  /\ pc' = "h_start"
                  /\ logs' = incoming
                  /\ UNCHANGED resp
             [] decision = "401" ->
                  /\ resp' = Append(resp, RInteractiveUnauthorized)
                  /\ logs' = incoming
                  /\ pc' = "done"
                  /\ UNCHANGED data
             [] decision = "400" ->
                  /\ resp' = Append(resp, RInteractiveMissing)
                  /\ logs' = incoming
                  /\ pc' = "done"
                  /\ UNCHANGED data
             [] OTHER ->
                  /\ resp' = Append(resp, RInternalError)
                  /\ logs' = Append(incoming, Log("error", "Error in interactive handler", NoVal))
                  /\ pc' = "done"
                  /\ UNCHANGED data
    /\ UNCHANGED <<cfg, events, sent, results, outcome, blocks, currentLogger, dispVars, apiVars, lsnVars, allowVars, hostVars, auxVars>>

\* a programmatic call of the exported handleRocketChatMessage; sessionWebhook is a
\* required parameter, the URL of the conversation being answered
DirectCall(d) ==
    /\ pc = "idle"
    /\ req' = [entry |-> "direct", method |-> "none", ct |-> "none",
               body |-> [kind |-> "object", fields |-> d], sessionWebhook |-> InboundUrl]
    /\ data' = d
    /\ pc' = "h_start"
    /\ UNCHANGED <<cfg, resp, events, sent, results, logs, outcome, blocks, currentLogger, dispVars, apiVars, lsnVars, allowVars, hostVars, auxVars>>

----------------------------------------------------------------------------
(* What each caller does when handleRocketChatMessage has settled *)

\* variant: the follow-up task of the registered route answers 500 when the pipeline fails
CallerResponseGatewayError(entry, o, written) ==
    IF entry = "webhook"
    THEN Append(written, IF o = "threw" THEN RInternalError ELSE RAck)
    ELSE IF entry = "interactive"
    THEN Append(written, IF o = "threw" THEN RInternalError ELSE RInteractiveAck)
    ELSE IF entry = "gateway" /\ o = "threw"
    THEN Append(written, RInternalError)
    ELSE written

\* the response written after the awaited pipeline: none by the registered route (it has
\* answered already) and none for a programmatic call
CallerResponse(entry, o, written) ==
    IF entry = "webhook"
    THEN Append(written, IF o = "threw" THEN RInternalError ELSE RAck)
    ELSE IF entry = "interactive"
    THEN Append(written, IF o = "threw" THEN RInternalError ELSE RInteractiveAck)
    ELSE written

\* whether the rejection of the pipeline reaches the caller's caller: the three HTTP entry
\* points catch it, a programmatic caller gets the rejected promise
CallerPropagates(entry, o) == entry = "direct" /\ o = "threw"

\* variant: the follow-up task of the registered route catches the rejection silently
CallerLogsSilent(entry, o, l) ==
    IF o # "threw" \/ entry \in {"direct", "gateway"} THEN l
    ELSE IF entry = "webhook"
    THEN Append(l, Log("error", "Error processing webhook", NoVal))
    ELSE Append(l, Log("error", "Error in interactive handler", NoVal))

\* the catch of each caller logs a rejected pipeline
CallerLogs(entry, o, l) ==
    IF o # "threw" \/ entry = "direct" THEN l
    ELSE IF entry = "gateway"
    THEN Append(l, Log("error", "Error processing message after response", NoVal))
    ELSE IF entry = "webhook"
    THEN Append(l, Log("error", "Error processing webhook", NoVal))
    ELSE Append(l, Log("error", "Error in interactive handler", NoVal))

\* handleRocketChatMessage settles with o after logging l; its caller resumes
Settle(o, l) ==
    /\ outcome' = o
    /\ pc' = "done"
    /\ resp' = CallerResponse(req.entry, o, resp)
    /\ logs' = CallerLogs(req.entry, o, l)

----------------------------------------------------------------------------
(* handleRocketChatMessage *)

\* a sendMessage call of the pipeline (thinking notice, reply block): to the resolved
\* target, with the session webhook the handler was given
PipelineSend(purpose, text) ==
    SendRecord(purpose, ReplyTarget(data), text, PipelineOptions(data, req.sessionWebhook),
               MessageCall(cfg, ReplyTarget(data), text, PipelineOptions(data, req.sessionWebhook)))

\* the synchronous run from the call to the first await
HandleSync ==
    /\ pc = "h_start"
    /\ currentLogger' = TRUE
    /\ LET inbound == Append(logs, Log("debug", "Full Inbound Data", maskSensitiveData(data).token))
       IN  IF ~HandleTokenOk(data)
           THEN /\ Settle("returned", Append(inbound, Log("warn", "Invalid auth token received", Render(data.token))))
                /\ UNCHANGED <<events, sent, ctx>>
           ELSE IF IsBotMessage(data)
           THEN /\ Settle("returned", Append(inbound, Log("debug", "Ignoring robot self-message", NoVal)))
                /\ UNCHANGED <<events, sent, ctx>>
           ELSE IF extractMessageContent(data) = <<>>
           THEN /\ Settle("returned", inbound)
                /\ UNCHANGED <<events, sent, ctx>>
           ELSE IF dmBlocked(cfg, data)
           THEN /\ logs' = Append(inbound, Log("debug", "DM blocked", Render(data.user_id)))
                /\ events' = Append(events, "denial")
                /\ sent' = Append(sent, SendRecord("denial", NoVal, DenialText(data.user_id), DenialOptions,
                                       SessionCall(cfg, req.sessionWebhook, DenialText(data.user_id),
                                                   DenialOptions)))
                /\ pc' = "h_denial"
                /\ UNCHANGED <<outcome, resp, ctx>>
           ELSE \E failAt \in HostFailPoints :
                LET gate == IF isDirectMsg(data) /\ EffectiveDmPolicy(cfg) = "allowlist"
                            THEN Append(inbound, Log("debug", "DM authorized", Render(data.user_id)))
                            ELSE inbound
                IN  /\ events' = events \o PipelineEvents(failAt)
                    /\ ctx' = HostContext(cfg, data, failAt)
                    /\ IF failAt = "none"
                       THEN pc' = "h_record" /\ logs' = gate /\ UNCHANGED <<outcome, resp>>
                       ELSE Settle("threw", gate)
                    /\ UNCHANGED sent
    /\ UNCHANGED <<cfg, req, data, results, blocks, dispVars, apiVars, lsnVars, allowVars, requireMention, auxVars>>

\* the provider call of the denial notice completes
DenialReturn(ok) ==
    /\ pc = "h_denial"
    /\ results' = Append(results, CallResult(ok))
    /\ Settle(DenialSendOutcome(ok),
              IF ok THEN logs
              ELSE Append(logs, Log("debug", "Failed to send access denied message", NoVal)))
    /\ UNCHANGED <<cfg, req, data, events, sent, blocks, currentLogger, dispVars, apiVars, lsnVars, allowVars, hostVars, auxVars>>

\* the awaited recordInboundSession settles; on success the thinking notice or the dispatch follows
RecordReturn(r) ==
    /\ pc = "h_record"
    /\ LET recorded == IF r = "callback"
                       THEN Append(logs, Log("error", "Failed to record inbound session", NoVal))
                       ELSE logs
           settled == Append(events, IF r = "ok" THEN "record_ok"
                                     ELSE IF r = "callback" THEN "record_error" ELSE "record_reject")
       IN  IF AfterRecord(r) = "threw"
           THEN /\ Settle("threw", recorded)
                /\ events' = settled
                /\ UNCHANGED sent
           ELSE /\ logs' = Append(recorded, Log("info", "Inbound", NoVal))
                /\ UNCHANGED <<outcome, resp>>
                /\ IF ThinkingEnabled(cfg)
                   THEN /\ events' = Append(settled, "thinking")
                        /\ sent' = Append(sent, PipelineSend("thinking", ThinkingText))
                        /\ pc' = "h_thinking"
                   ELSE /\ events' = Append(settled, "dispatch")
                        /\ pc' = "h_dispatch"
                        /\ UNCHANGED sent
    /\ UNCHANGED <<cfg, req, data, results, blocks, currentLogger, dispVars, apiVars, lsnVars, allowVars, hostVars, auxVars>>

\* the sendMessage of the thinking notice returns; the host dispatcher is invoked
ThinkingReturn(ok) ==
    /\ pc = "h_thinking"
    /\ results' = Append(results, CallResult(ok))
    /\ logs' = SendMessageLogs(logs, ok, TRUE)
    /\ events' = Append(events, "dispatch")
    /\ pc' = "h_dispatch"
    /\ UNCHANGED <<cfg, req, data, resp, sent, outcome, blocks, currentLogger, dispVars, apiVars, lsnVars, allowVars, hostVars, auxVars>>

\* the host dispatcher emits a block and calls deliver
DispatchEmit(b) ==
    /\ pc = "h_dispatch"
    /\ blocks < MaxBlocks
    /\ blocks' = blocks + 1
    /\ emitted' = Append(emitted, b)
    /\ IF ~Truthy(BlockText(b))
       THEN /\ events' = Append(events, "deliver_empty")
            /\ delivered' = Append(delivered, "resolved")
            /\ UNCHANGED <<sent, pc>>
       ELSE /\ events' = Append(events, "deliver")
            /\ sent' = Append(sent, PipelineSend("reply", BlockText(b)))
            /\ pc' = AfterSendStarted
            /\ UNCHANGED delivered
    /\ UNCHANGED <<cfg, req, data, resp, results, logs, outcome, currentLogger, apiVars, lsnVars, allowVars, hostVars, auxVars>>

\* the sendMessage of deliver returns; deliver returns to the host dispatcher
DeliverReturn(ok) ==
    /\ pc = "h_deliver"
    /\ results' = Append(results, CallResult(ok))
    /\ logs' = DeliverLogs(SendMessageLogs(logs, ok, TRUE), ok)
    /\ delivered' = Append(delivered, DeliverOutcome(ok))
    /\ pc' = "h_dispatch"
    /\ UNCHANGED <<cfg, req, data, resp, events, sent, outcome, blocks, currentLogger, emitted, apiVars, lsnVars, allowVars, hostVars, auxVars>>

\* the promise of dispatchReplyWithBufferedBlockDispatcher settles
DispatchReturn(ok) ==
    /\ pc = "h_dispatch"
    /\ Settle(IF ok THEN "returned" ELSE "threw", logs)
    /\ UNCHANGED <<cfg, req, data, events, sent, results, blocks, currentLogger, dispVars, apiVars, lsnVars, allowVars, hostVars, auxVars>>

----------------------------------------------------------------------------
(* sendMessage called through the exported API (outbound.sendText, integrations) *)

\* variant: the logger picked for the call is kept in the module slot
SendMessageLoggerStored(cur, options) == options.log \/ cur

\* const log = options.log || getLogger(): a local of the call; the module slot keeps its
\* value
SendMessageLogger(cur, options) == cur

SendTexts == { <<"h","i">>, <<"#","h">>, <<"a","\n","b">>, <<>> }
SendWebhooks == {AbsentWebhook, "", InboundUrl}
SendAtUserIds == {NoVal, <<>>, U2}
UseMarkdownValues == {"unset", "true", "false"}
SendOptions == {Options(w, a, u, TRUE) : w \in SendWebhooks, a \in SendAtUserIds, u \in UseMarkdownValues}
                 \cup {Options(AbsentWebhook, NoVal, "unset", FALSE)}

\* sendMessage up to the provider call it awaits
SendMessageCall(to, text, options) ==
    /\ pc = "idle"
    /\ req' = [NoReq EXCEPT !.entry = "sendMessage"]
    /\ currentLogger' = SendMessageLogger(currentLogger, options)
    /\ sendIn' = [to |-> to, text |-> text, options |-> options]
    /\ LET call == MessageCall(cfg, to, text, options)
       IN  /\ sent' = Append(sent, SendRecord("api", to, text, options, call))
           /\ logs' = IF call.via = "proactive" /\ (options.log \/ currentLogger)
                      THEN logs \o <<Log("debug", "Sending proactive message to target", Render(to)),
                                     Log("debug", "Sending payload", text)>>
                      ELSE logs
    /\ pc' = "s_send"
    /\ UNCHANGED <<cfg, data, resp, events, results, outcome, blocks, dispVars,
                   sendOut, lsnVars, allowVars, hostVars, auxVars>>

\* the provider call completes; sendMessage returns its DeliveryResult
SendMessageReturn(ok) ==
    /\ pc = "s_send"
    /\ results' = Append(results, CallResult(ok))
    /\ logs' = SendMessageLogs(logs, ok, sendIn.options.log)
    /\ sendOut' = sendMessageResult(ok)
    /\ pc' = "done"
    /\ UNCHANGED <<cfg, req, data, resp, events, sent, outcome, blocks, currentLogger, dispVars,
                   sendIn, lsnVars, allowVars, hostVars, auxVars>>

----------------------------------------------------------------------------
(* The listener of gateway.startAccount *)

RHealthOk == R(200, "{status: ok, service: Rocket.Chat webhook handler}")
RHealthNotAllowed == RH(405, "Method Not Allowed", "none", "GET")

\* how startAccount went: the account has no authToken; both routes registered and the
\* unregister function stored; the dynamic import (or the first registration) raised;
\* the second registration raised after the webhook route had been registered
StartOutcomes == {"no_token", "ok", "import_failed", "health_failed"}

\* startAccount: it throws when the account has no authToken; else it registers the
\* routes inside a try block whose catch logs and goes on, and resolves with a stop handle
StartAccount(r) ==
    /\ ~listener.started
    /\ listener.result = "none"
    /\ listener' = IF r = "no_token" THEN [listener EXCEPT !.result = "rejected"]
                   ELSE [listener EXCEPT !.started = TRUE, !.result = "resolved",
                                         !.routes = CASE r = "ok" -> Routes
                                                      [] r = "health_failed" -> {"webhook"}
                                                      [] OTHER -> {},
                                         !.unregisterFn = IF r = "ok" THEN "first" ELSE @]
    /\ UNCHANGED <<cfg, reqVars, history, allowVars, auxVars>>

\* startAccount runs again for the same account id while the first start is there: its
\* unregister function is stored under the same key and replaces the one stored before
StartAgain(r) ==
    /\ listener.started
    /\ ~listener.again.started
    /\ r # "no_token"
    /\ listener' = [listener EXCEPT !.again = [started |-> TRUE, stopped |-> FALSE, aborted |-> FALSE,
                                               routes |-> CASE r = "ok" -> Routes
                                                            [] r = "health_failed" -> {"webhook"}
                                                            [] OTHER -> {}],
                                    !.unregisterFn = IF r = "ok" THEN "second" ELSE @]
    /\ UNCHANGED <<cfg, reqVars, history, allowVars, auxVars>>

\* the abort listener: nothing when stopped is set already; else it sets stopped and calls
\* and deletes the unregister function stored under the account id, if there is one
AbortListener(l) ==
    IF l.stopped THEN [l EXCEPT !.aborted = TRUE]
    ELSE [l EXCEPT !.aborted = TRUE, !.stopped = TRUE,
                   !.routes = IF l.unregisterFn = "first" THEN {} ELSE @,
                   !.again.routes = IF l.unregisterFn = "second" THEN {} ELSE @,
                   !.unregisterFn = "none"]

\* the abort signal of the start fires
Abort ==
    /\ listener.started
    /\ ~listener.aborted
    /\ listener' = AbortListener(listener)
    /\ UNCHANGED <<cfg, reqVars, history, allowVars, auxVars>>

\* the abort signal of the second start fires: the same listener code over the second
\* start's stopped flag and the one slot of the account id
AbortAgain ==
    /\ listener.again.started
    /\ ~listener.again.aborted
    /\ listener' = IF listener.again.stopped THEN [listener EXCEPT !.again.aborted = TRUE]
                   ELSE [listener EXCEPT !.again.aborted = TRUE, !.again.stopped = TRUE,
                            !.routes = IF listener.unregisterFn = "first" THEN {} ELSE @,
                            !.again.routes = IF listener.unregisterFn = "second" THEN {} ELSE @,
                            !.unregisterFn = "none"]
    /\ UNCHANGED <<cfg, reqVars, history, allowVars, auxVars>>

\* the stop() function startAccount returned is called: it sets the stopped flag only
Stop ==
    /\ listener.started
    /\ listener' = [listener EXCEPT !.stopped = TRUE]
    /\ UNCHANGED <<cfg, reqVars, history, allowVars, auxVars>>

\* the stop() function of the second start is called
StopAgain ==
    /\ listener.again.started
    /\ listener' = [listener EXCEPT !.again.stopped = TRUE]
    /\ UNCHANGED <<cfg, reqVars, history, allowVars, auxVars>>

\* the handler registered on the health route
HealthRequest(m) ==
    /\ pc = "idle"
    /\ "health" \in listener.routes \cup listener.again.routes
    /\ req' = [NoReq EXCEPT !.entry = "health", !.method = m]
    /\ resp' = Append(resp, IF m = "GET" THEN RHealthOk ELSE RHealthNotAllowed)
    /\ pc' = "done"
    /\ UNCHANGED <<cfg, data, events, sent, results, logs, outcome, blocks, currentLogger,
                   dispVars, apiVars, lsnVars, allowVars, hostVars, auxVars>>

\* the request is over; the listener is ready for the next one (the logger slot is module
\* state and stays)
NextRequest ==
    /\ pc = "done"
    /\ Len(history) < MaxRequests - 1
    /\ history' = Append(history, [entry |-> req.entry, outcome |-> outcome, sendIn |-> sendIn,
                                   results |-> IF req.entry = "sendMessage" THEN results ELSE <<>>,
                                   sendOut |-> sendOut])
    /\ req' = NoReq
    /\ pc' = "idle"
    /\ data' = NoFields
    /\ resp' = <<>>
    /\ events' = <<>>
    /\ sent' = <<>>
    /\ results' = <<>>
    /\ logs' = <<>>
    /\ outcome' = "none"
    /\ blocks' = 0
    /\ emitted' = <<>>
    /\ delivered' = <<>>
    /\ sendIn' = NoSend
    /\ sendOut' = NoResult
    /\ ctx' = NoCtx
    /\ requireMention' = "none"
    /\ UNCHANGED <<cfg, currentLogger, listener, allowVars, auxVars>>

\* the account and the requests the listener is exercised with
ListenerConfigs == {DefaultConfig}
ListenerPayloads == {p \in SamplePayloads : p.user_id = U1 /\ p.text = <<"h","i">> /\ p.token # NoVal}
ListenerRequests == [ct : {"application/json"}, body : [kind : {"json"}, fields : ListenerPayloads]]

ListenerInit ==
    /\ cfg \in ListenerConfigs
    /\ InitRequest
    /\ listener = NotStarted
    /\ history = <<>>
    /\ ModuleInit
    /\ mdIn = NoMarkdownIn
    /\ mdOut = "none"
    /\ allowIn = <<>>
    /\ senderIn = NoVal
    /\ allowOut = "none"
    /\ normOut = NoAllow

ListenerNext ==
    \/ \E r \in StartOutcomes : StartAccount(r)
    \/ Abort
    \/ Stop
    \/ NextRequest
    \/ \E m \in {"GET", "POST"} : HealthRequest(m)
    \/ \E w \in ListenerRequests : GatewayRequest("POST", w.ct, w.body)
    \/ GatewayRequest("GET", "text/plain", [kind |-> "text", fields |-> NoFields])
    \/ GatewayEnd
    \/ TimerFire
    \/ HandleSync
    \/ \E r \in RecordOutcomes : RecordReturn(r)
    \/ \E ok \in BOOLEAN : ThinkingReturn(ok)
    \/ \E b \in ReplyBlocks : DispatchEmit(b)
    \/ \E ok \in BOOLEAN : DeliverReturn(ok)
    \/ \E ok \in BOOLEAN : DispatchReturn(ok)

ListenerSpec == ListenerInit /\ [][ListenerNext]_vars

\* the listener whose abort signal does fire: the host aborts every start it made
ListenerLiveSpec == ListenerSpec /\ WF_vars(Abort)

\* two starts of one account id, with the health checks and the verification requests
\* that show which routes are being served
RestartNext ==
    \/ \E r \in StartOutcomes : StartAccount(r)
    \/ \E r \in StartOutcomes : StartAgain(r)
    \/ Abort
    \/ AbortAgain
    \/ Stop
    \/ StopAgain
    \/ NextRequest
    \/ \E m \in {"GET", "POST"} : HealthRequest(m)
    \/ GatewayRequest("GET", "text/plain", [kind |-> "text", fields |-> NoFields])

RestartSpec == ListenerInit /\ [][RestartNext]_vars

----------------------------------------------------------------------------
(* Allow-list evaluation on its own *)

AllowEntryPool ==
    { <<>>, <<" ">>, <<"*">>, <<" ", "*", " ">>, <<"u","1">>, <<"U","1">>, <<" ", "u","1">>,
      <<"r","c",":","U","1">>, <<"R","C",":","u","2">>, <<"r","c",":","r","c",":","u","1">>,
      <<"r","c",":">>, <<"R","o","c","k","e","t",":","u","1">>,
      <<"r","o","c","k","e","t","c","h","a","t",":","u","2">>, <<"x","r","c",":","u","1">> }

AllowSenders == { NoVal, <<>>, <<"u","1">>, <<"U","1">>, <<"U","2">>, <<"r","c",":","u","1">>, <<"*">> }

RECURSIVE SeqsUpTo(_, _)
SeqsUpTo(S, n) ==
    IF n = 0 THEN { <<>> }
    ELSE SeqsUpTo(S, n - 1) \cup {Append(q, x) : q \in {t \in SeqsUpTo(S, n - 1) : Len(t) = n - 1}, x \in S}

AllowInit ==
    /\ cfg = DefaultConfig
    /\ InitRequest
    /\ listener = Running
    /\ history = <<>>
    /\ ModuleInit
    /\ mdIn = NoMarkdownIn
    /\ mdOut = "none"
    /\ allowIn \in SeqsUpTo(AllowEntryPool, MaxAllowLen)
    /\ senderIn \in AllowSenders
    /\ allowOut = "none"
    /\ normOut = NoAllow

\* isSenderAllowed({ allow: normalizeAllowFrom(allowFrom), senderId })
AllowEvaluate ==
    /\ allowOut = "none"
    /\ normOut' = normalizeAllowFrom(allowIn)
    /\ allowOut' = IF isSenderAllowed(normOut', senderIn) THEN "allowed" ELSE "denied"
    /\ UNCHANGED <<cfg, reqVars, lsnVars, allowIn, senderIn, auxVars>>

AllowSpec == AllowInit /\ [][AllowEvaluate]_vars

----------------------------------------------------------------------------
(* Sequences of sendMessage calls *)

\* the logger slot is undefined until the first inbound message and set from then on
SendInit ==
    /\ cfg = DefaultConfig
    /\ InitRequest
    /\ listener = Running
    /\ history = <<>>
    /\ currentLogger \in BOOLEAN
    /\ activeCardsByTarget = {}
    /\ mdIn = NoMarkdownIn
    /\ mdOut = "none"
    /\ allowIn = <<>>
    /\ senderIn = NoVal
    /\ allowOut = "none"
    /\ normOut = NoAllow

\* a reply-style and a proactive call, with and without a logger of their own
SendNext ==
    \/ \E w \in {AbsentWebhook, InboundUrl}, l \in BOOLEAN :
          SendMessageCall(ChanId, <<"h","i">>, Options(w, NoVal, "unset", l))
    \/ \E ok \in BOOLEAN : SendMessageReturn(ok)
    \/ NextRequest

SendSpec == SendInit /\ [][SendNext]_vars

----------------------------------------------------------------------------
(* Markdown detection on its own *)

Hello == <<"h","e","l","l","o">>
HelloWorld == <<"#"," ","h","e","l","l","o","\n","w","o","r","l","d">>

\* texts over every character detectMarkdown tests for, a letter and a blank
MarkdownTexts ==
    SeqsUpTo({"h", " ", "#", "*", ">", "-", "_", Backquote, "[", "]", "\n"}, MaxTextLen)
    \cup {Hello, HelloWorld}

MarkdownInit ==
    /\ cfg = DefaultConfig
    /\ InitRequest
    /\ listener = Running
    /\ history = <<>>
    /\ ModuleInit
    /\ mdIn \in [text : MarkdownTexts, useMarkdown : UseMarkdownValues]
    /\ mdOut = "none"
    /\ allowIn = <<>>
    /\ senderIn = NoVal
    /\ allowOut = "none"
    /\ normOut = NoAllow

\* detectMarkdown(text, options)
MarkdownEvaluate ==
    /\ mdOut = "none"
    /\ mdOut' = IF detectMarkdown(mdIn.text, mdIn.useMarkdown) THEN "true" ELSE "false"
    /\ UNCHANGED <<cfg, reqVars, lsnVars, allowVars, activeCardsByTarget, mdIn>>

MarkdownSpec == MarkdownInit /\ [][MarkdownEvaluate]_vars

----------------------------------------------------------------------------
(* Specification *)

\* The message gate: accepted messages of every classification under every policy, the
\* method tests of the route, and group policy resolution.
GateRequests ==
    [ct : {"application/json"},
     body : [kind : {"json"},
             fields : [token : {AuthToken}, bot : {JsFalse}, channel_id : {ChanId},
                       channel_name : {NoVal, <<>>, <<"@">>, <<"@","u","1">>, <<"g","e","n">>, <<"g","@","n">>},
                       user_id : {U1, U2}, text : {<<"h","i">>}]]]
ProbeRequests ==
    {w \in GateRequests : w.body.fields.user_id = U1 /\ w.body.fields.channel_name \in {NoVal, <<"g","e","n">>}}
    \cup [ct : {"text/plain"}, body : OtherBodies]
GateConfigs ==
    [webhookUrl : {WebhookUrl}, dmPolicy : DmPolicies, groupPolicy : {"unset"},
     allowFrom : {<<>>, << <<"u","2">> >>}, showThinking : ShowThinkingValues]
    \cup {[DefaultConfig EXCEPT !.groupPolicy = g] : g \in {"unset", "open", "allowlist"}}

GateInit ==
    /\ cfg \in GateConfigs
    /\ InitRequest
    /\ listener = Running
    /\ history = <<>>
    /\ ModuleInit
    /\ mdIn = NoMarkdownIn
    /\ mdOut = "none"
    /\ allowIn = <<>>
    /\ senderIn = NoVal
    /\ allowOut = "none"
    /\ normOut = NoAllow

GateNext ==
    \/ \E w \in GateRequests : GatewayRequest("POST", w.ct, w.body)
    \/ \E m \in Methods \ {"POST"}, w \in ProbeRequests : GatewayRequest(m, w.ct, w.body)
    \/ ResolveRequireMention
    \/ GatewayEnd
    \/ TimerFire
    \/ HandleSync
    \/ \E ok \in BOOLEAN : DenialReturn(ok)
    \/ \E r \in RecordOutcomes : RecordReturn(r)
    \/ \E ok \in BOOLEAN : ThinkingReturn(ok)
    \/ \E b \in ReplyBlocks : DispatchEmit(b)
    \/ \E ok \in BOOLEAN : DeliverReturn(ok)
    \/ \E ok \in BOOLEAN : DispatchReturn(ok)

GateSpec == GateInit /\ [][GateNext]_vars

Next ==
    \/ \E w \in WireRequests : GatewayRequest("POST", w.ct, w.body)
    \/ \E m \in Methods \ {"POST"} : GatewayRequest(m, "text/plain", [kind |-> "text", fields |-> NoFields])
    \/ GatewayEnd
    \/ TimerFire
    \/ \E body \in FrameworkBodies : WebhookRequest(body)
    \/ \E body \in FrameworkBodies : InteractiveRequest(body)
    \/ \E d \in Payloads : DirectCall(d)
    \/ \E text \in SendTexts, options \in SendOptions : SendMessageCall(ChanId, text, options)
    \/ \E ok \in BOOLEAN : SendMessageReturn(ok)
    \/ HandleSync
    \/ \E ok \in BOOLEAN : DenialReturn(ok)
    \/ \E r \in RecordOutcomes : RecordReturn(r)
    \/ \E ok \in BOOLEAN : ThinkingReturn(ok)
    \/ \E b \in ReplyBlocks : DispatchEmit(b)
    \/ \E ok \in BOOLEAN : DeliverReturn(ok)
    \/ \E ok \in BOOLEAN : DispatchReturn(ok)

Spec == Init /\ [][Next]_vars

----------------------------------------------------------------------------
(* Vocabulary of the properties *)

HandlePcs == {"h_start", "h_denial", "h_record", "h_thinking", "h_dispatch", "h_deliver"}

\* handleRocketChatMessage has been called for the message
HandleCalled == pc \in HandlePcs \/ outcome # "none"

\* its synchronous part has run
HandleRan == HandleCalled /\ pc # "h_start"

Count(q, x) == Cardinality({i \in 1..Len(q) : q[i] = x})
CallsFor(purpose) == Cardinality({i \in 1..Len(sent) : sent[i].purpose = purpose})

\* the raw POST of the registered route is still at hand (until the follow-up task starts)
GatewayPostHeld == req.entry = "gateway" /\ req.method = "POST" /\ req.ct # "none"

\* the body cannot be decoded into a payload object for its content-type: not the JSON text
\* of an object under application/json, a payload field that is not JSON under the form
\* type, and either of the two under any other type
Undecodable(ct, body) ==
    CASE ct = "application/json" -> body.kind # "json"
      [] ct = "application/x-www-form-urlencoded" -> body.kind = "formbadjson"
      [] OTHER -> body.kind \in {"jsonnull", "formbadjson"}

\* the fields the sender put in the body, as far as the content-type lets them be read
DecodedField(ct, body, k) ==
    IF body.kind \in {"form", "formpayload"} \/ (body.kind = "json" /\ ct # "application/x-www-form-urlencoded")
    THEN body.fields[k]
    ELSE NoVal

MissingOrEmpty(v) == v = NoVal \/ v = <<>>

\* the message is a group message: channel_name present and not starting with "@"
GroupMessage(d) == d.channel_name # NoVal /\ d.channel_name # <<>> /\ Head(d.channel_name) # "@"

\* the text is empty or whitespace-only
BlankText(d) == d.text = NoVal \/ \A i \in 1..Len(d.text) : d.text[i] \in {" ", "\n"}

\* the allow-list rule, stated on the raw list
SomeEntry(list, P(_)) == \E i \in 1..Len(list) : P(Trim(list[i]))
IsStar(e) == e = <<"*">>
IsNonBlank(e) == e # <<>>
AllowRule(list, sender) ==
    \/ ~SomeEntry(list, IsNonBlank)
    \/ SomeEntry(list, IsStar)
    \/ /\ sender # NoVal
       /\ sender # <<>>
       /\ \E i \in 1..Len(list) :
             LET e == Trim(list[i])
             IN  e # <<>> /\ e # <<"*">> /\ ToLower(StripProviderPrefix(e)) = ToLower(sender)

\* the provider calls made for reply blocks, and the emitted blocks that carry a text
IsReply(c) == c.purpose = "reply"
Replies == SelectSeq(sent, IsReply)
NonEmptyBlock(b) == (b.markdown # NoVal /\ b.markdown # <<>>) \/ (b.text # NoVal /\ b.text # <<>>)
NonEmptyEmitted == SelectSeq(emitted, NonEmptyBlock)

\* markdown if the block has one, else its text
ExpectedText(b) == IF b.markdown # NoVal /\ b.markdown # <<>> THEN b.markdown ELSE b.text

\* provider calls issued and not yet completed
InFlight == Len(sent) - Len(results)

\* failed provider calls made through sendMessage by the pipeline
FailedSends ==
    Cardinality({i \in 1..Len(results) : results[i] = "failed" /\ sent[i].purpose \in {"thinking", "reply"}})

\* position of the first x in q (0 when it does not occur)
Pos(q, x) == IF InSeq(x, q) THEN CHOOSE i \in 1..Len(q) : q[i] = x /\ \A j \in 1..(i - 1) : q[j] # x ELSE 0

\* the session record has been made (it settled without rejecting the awaited promise)
Recorded == InSeq("record_ok", events) \/ InSeq("record_error", events)

----------------------------------------------------------------------------
(* Properties *)

\* C1: a POST to the registered route whose body has been received is answered by strict
\* priority: 400 Invalid JSON when the body cannot be decoded for its content-type, else 401
\* when the token differs from authToken, else 400 when user_id or text is missing or empty,
\* else the 200 acknowledgment; and only the 200 case schedules the processing.
C1_Expected ==
    IF Undecodable(req.ct, req.body) THEN RInvalidJson
    ELSE IF DecodedField(req.ct, req.body, "token") # AuthToken THEN RUnauthorizedToken
    ELSE IF MissingOrEmpty(DecodedField(req.ct, req.body, "user_id"))
            \/ MissingOrEmpty(DecodedField(req.ct, req.body, "text")) THEN RMissingFields
    ELSE RAck
C1_ValidationOrder ==
    GatewayPostHeld =>
        /\ pc = "body" => resp = <<>>
        /\ pc # "body" => resp = <<C1_Expected>>
        /\ pc = "timer" <=> (pc # "body" /\ C1_Expected = RAck)
        /\ pc \in {"body", "timer", "done"}
        /\ ~HandleCalled
C1_Witness ==
    /\ GatewayPostHeld
    /\ req.ct = "application/json"
    /\ req.body.kind = "json"
    /\ req.body.fields.token = WrongToken
    /\ req.body.fields.text = NoVal
    /\ resp = <<RUnauthorizedToken>>

\* C2: on the registered route the 200 acknowledgment has been written before
\* handleRocketChatMessage starts for the request, hence before any route resolution,
\* session-store access, agent invocation or provider call made for it.
C2_AckBeforeProcessing ==
    req.entry = "gateway" =>
        /\ (pc = "timer" \/ HandleCalled) => resp = <<RAck>>
        /\ (events # <<>> \/ sent # <<>>) => resp = <<RAck>>
C2_Witness ==
    /\ req.entry = "gateway"
    /\ pc = "h_deliver"
    /\ resp = <<RAck>>

\* C3: in rocketChatWebhookHandler and rocketChatInteractiveHandler the response of an
\* accepted request is sent before the pipeline makes any session-store or provider call,
\* and the outcome of the pipeline does not affect the response status.
C3_RespondBeforePipeline ==
    req.entry \in {"webhook", "interactive"} =>
        /\ (events # <<>> \/ sent # <<>>) => (Len(resp) = 1 /\ resp[1].status = 200)
        /\ (pc = "done" /\ outcome # "none") => (Len(resp) = 1 /\ resp[1].status = 200)

\* C4: a payload whose token differs from authToken gets 401 at every HTTP entry point and
\* nothing further happens for it: the pipeline is not scheduled (a direct call returns at
\* the token check), and no route resolution, session record, denial notice, thinking
\* notice or reply send occurs.
C4_TokenMismatch ==
    \/ /\ GatewayPostHeld
       /\ ~Undecodable(req.ct, req.body)
       /\ DecodedField(req.ct, req.body, "token") # AuthToken
    \/ /\ req.entry \in {"webhook", "interactive", "direct"}
       /\ req.body.kind = "object"
       /\ req.body.fields.token # AuthToken
C4_TokenMismatchStops ==
    C4_TokenMismatch =>
        /\ events = <<>>
        /\ sent = <<>>
        /\ pc \notin (HandlePcs \ {"h_start"}) \cup {"timer"}
        /\ req.entry # "direct" => (~HandleCalled /\ (pc = "done" => (Len(resp) = 1 /\ resp[1].status = 401)))
        /\ req.entry = "direct" => (pc = "done" => (outcome = "returned" /\ resp = <<>>))
C4_Witness ==
    /\ req.entry = "direct"
    /\ data.token = WrongToken
    /\ Truthy(data.text)
    /\ pc = "done"
    /\ outcome = "returned"

\* C5 (as stated): isSenderAllowed(normalizeAllowFrom(list), senderId) is true exactly when
\* the list is empty, or contains the wildcard, or the sender id equals, case-insensitively,
\* some normalized entry.
C5_AsStated ==
    allowOut # "none" =>
        (allowOut = "allowed" <=>
            \/ allowIn = <<>>
            \/ SomeEntry(allowIn, IsStar)
            \/ \E i \in 1..Len(normalizeAllowFrom(allowIn).entries) :
                  ToLower(normalizeAllowFrom(allowIn).entries[i]) = ToLower(Render(senderIn)))

\* C5 (amended): the result is true exactly when no entry of the list is non-blank after
\* trimming, or some entry trims to the wildcard, or the sender id is non-empty and equals,
\* case-insensitively, a trimmed non-blank non-wildcard entry with one leading provider
\* prefix stripped; a wildcard allows every sender, the empty one included, and an empty
\* list allows every sender.
C5_AllowListRule ==
    allowOut # "none" =>
        /\ allowOut = "allowed" <=> AllowRule(allowIn, senderIn)
        /\ InSeq(<<"*">>, allowIn) => allowOut = "allowed"
        /\ allowIn = <<>> => allowOut = "allowed"
C5_Witness ==
    /\ allowIn = << <<"R","C",":","u","2">>, <<" ">> >>
    /\ senderIn = <<"U","2">>
    /\ allowOut = "allowed"

\* C6: under dmPolicy=allowlist a direct message with non-empty text that reaches the
\* authorization gate is denied exactly when isSenderAllowed is false for its user_id; on
\* denial exactly one denial notice carrying the user_id is sent and processing stops: no
\* route resolution, session-store read, envelope, session record, thinking notice or reply.
C6_AtGate ==
    /\ HandleRan
    /\ cfg.dmPolicy = "allowlist"
    /\ data.token = AuthToken
    /\ ~Truthy(data.bot)
    /\ ~BlankText(data)
    /\ ~GroupMessage(data)
C6_DenialExact ==
    C6_AtGate =>
        /\ InSeq("denial", events) <=> ~isSenderAllowed(normalizeAllowFrom(cfg.allowFrom), data.user_id)
        /\ InSeq("denial", events) =>
              /\ events = <<"denial">>
              /\ Len(sent) = 1
              /\ sent[1].purpose = "denial"
              /\ Contains(sent[1].text, Render(data.user_id))
              /\ pc \in {"h_denial", "done"}
C6_Witness ==
    /\ C6_AtGate
    /\ data.user_id = U1
    /\ cfg.allowFrom = << <<"u","2">> >>
    /\ pc = "done"
    /\ events = <<"denial">>
    /\ results = <<"ok">>

\* C7: the denial notice is attempted at most once per message and never retried; when the
\* provider call fails the failure is logged, handleRocketChatMessage still returns
\* normally, and the response of the registered route stays the 200 already given.
C7_DenialBestEffort ==
    /\ Count(events, "denial") <= 1
    /\ CallsFor("denial") <= 1
    /\ (pc = "done" /\ InSeq("denial", events)) =>
          /\ CallsFor("denial") = 1
          /\ Len(results) = 1
          /\ outcome = "returned"
          /\ results = <<"failed">> =>
                InSeq(Log("debug", "Failed to send access denied message", NoVal), logs)
          /\ req.entry = "gateway" => resp = <<RAck>>
          /\ req.entry \in {"webhook", "interactive"} => (Len(resp) = 1 /\ resp[1].status = 200)
C7_Witness ==
    /\ req.entry = "gateway"
    /\ pc = "done"
    /\ InSeq("denial", events)
    /\ results = <<"failed">>
    /\ outcome = "returned"

\* C8: a group message with a valid token, bot=false and non-empty text is never filtered
\* through dmPolicy: whatever dmPolicy and allowFrom are, no denial notice is sent, the
\* handler goes on to route resolution, and it reaches the reply dispatch unless a host call
\* raised on the way.
C8_GroupCase ==
    /\ HandleRan
    /\ GroupMessage(data)
    /\ data.token = AuthToken
    /\ ~Truthy(data.bot)
    /\ ~BlankText(data)
C8_GroupNeverFiltered ==
    C8_GroupCase =>
        /\ ~InSeq("denial", events)
        /\ CallsFor("denial") = 0
        /\ Len(events) > 0 /\ events[1] = "route"
        /\ pc = "done" => (InSeq("dispatch", events) \/ outcome = "threw")
        /\ pc \in {"h_dispatch", "h_deliver"} => InSeq("dispatch", events)
C8_Witness ==
    /\ C8_GroupCase
    /\ cfg.dmPolicy = "allowlist"
    /\ cfg.allowFrom = << <<"u","2">> >>
    /\ data.user_id = U1
    /\ InSeq("dispatch", events)
    /\ pc = "done"

\* C9: for a payload whose text is empty or whitespace-only handleRocketChatMessage halts
\* right after normalization with no side effect: no denial notice (even for a sender the
\* allow-list would deny), no route resolution, envelope, session record, thinking notice
\* or reply.
C9_BlankTextHalts ==
    (HandleCalled /\ BlankText(data)) =>
        /\ events = <<>>
        /\ sent = <<>>
        /\ pc \in {"h_start", "done"}
        /\ pc = "done" => outcome = "returned"
C9_Witness ==
    /\ req.entry = "gateway"
    /\ data.token = AuthToken
    /\ data.bot = JsFalse
    /\ data.text = <<" ">>
    /\ data.user_id = U1
    /\ data.channel_name = NoVal
    /\ cfg.dmPolicy = "allowlist"
    /\ cfg.allowFrom = << <<"u","2">> >>
    /\ pc = "done"
    /\ outcome = "returned"

\* C10: a failed session record (the promise rejects, or the error callback is invoked)
\* does not prevent the reply: the handler still goes on to the thinking notice and to the
\* dispatch of the reply.
C10_RecordFailureKeepsReply ==
    (pc = "done" /\ (InSeq("record_error", events) \/ InSeq("record_reject", events))) =>
        /\ InSeq("dispatch", events)
        /\ cfg.showThinking # "false" => InSeq("thinking", events)

\* C11: when the provider call for a reply block fails, the deliver callback logs the
\* failure ("Reply failed") and its promise rejects, so the host dispatcher observes the
\* failure of that block.
C11_DeliverReraises ==
    \A i \in 1..Len(results) :
        (sent[i].purpose = "reply" /\ results[i] = "failed") =>
            /\ InSeq(Log("error", "Reply failed", NoVal), logs)
            /\ InSeq("rejected", delivered)

\* C12: a sendMessage call never raises: whether the provider call succeeds or fails, its
\* promise resolves to a DeliveryResult, with ok=true exactly when the provider call
\* completed without exception and ok=false with an error message otherwise.
C12_SendMessageNeverRaises ==
    /\ sendOut.settled # "rejected"
    /\ \A j \in 1..Len(delivered) : delivered[j] = "resolved"
    /\ (req.entry = "sendMessage" /\ pc = "done") =>
          /\ Len(results) = 1
          /\ sendOut.settled = "resolved"
          /\ sendOut.ok <=> results[1] = "ok"
          /\ sendOut.ok => sendOut.error = NoVal
          /\ ~sendOut.ok => sendOut.error \notin {NoVal, <<>>}
C12_Witness ==
    /\ req.entry = "sendMessage"
    /\ pc = "done"
    /\ results = <<"failed">>
    /\ sendOut = [settled |-> "resolved", ok |-> FALSE, error |-> ErrMessage]

\* C13: every emitted block that carries a text (its markdown if it has one, else its
\* plain text) triggers exactly one provider call, in emission order, made with that text,
\* with the target of the message (user_id when direct, channel_id when group) and with
\* atUserId the sender id for a group message and absent for a direct one; a block with
\* neither markdown nor text triggers none.
C13_OncePerBlock ==
    /\ Len(Replies) = Len(NonEmptyEmitted)
    /\ Count(events, "deliver") = Len(NonEmptyEmitted)
    /\ Count(events, "deliver_empty") = Len(emitted) - Len(NonEmptyEmitted)
    /\ \A k \in 1..Len(Replies) :
          /\ Replies[k].input = ExpectedText(NonEmptyEmitted[k])
          /\ Replies[k].to = (IF GroupMessage(data) THEN data.channel_id ELSE data.user_id)
          /\ Replies[k].atUserId = (IF GroupMessage(data) THEN data.user_id ELSE NoVal)
C13_Witness ==
    /\ pc = "done"
    /\ GroupMessage(data)
    /\ Len(emitted) = 2
    /\ emitted[1] = [markdown |-> NoVal, text |-> NoVal]
    /\ emitted[2] = [markdown |-> <<"#", "h">>, text |-> <<"o", "k">>]
    /\ Len(Replies) = 1
    /\ Replies[1].atUserId = data.user_id

C15_ThinkingNotice ==
    /\ CallsFor("thinking") = Count(events, "thinking")
    /\ CallsFor("thinking") <= 1
    /\ cfg.showThinking = "false" => CallsFor("thinking") = 0
    /\ Recorded => (CallsFor("thinking") = 1 <=> cfg.showThinking \in {"unset", "true"})
    /\ InSeq("thinking", events) =>
          /\ Recorded
          /\ Pos(events, "record") < Pos(events, "thinking")
          /\ sent[1].purpose = "thinking"
          /\ InSeq("dispatch", events) => Pos(events, "thinking") < Pos(events, "dispatch")
          /\ Len(results) >= 1 => InSeq("dispatch", events)
    /\ (InSeq("dispatch", events) /\ cfg.showThinking # "false") => InSeq("thinking", events)
C15_Witness ==
    /\ pc = "done"
    /\ outcome = "returned"
    /\ Len(sent) = 2
    /\ sent[1].purpose = "thinking"
    /\ results[1] = "failed"
    /\ InSeq("dispatch", events)
    /\ Len(Replies) = 1

\* C16: once the abort signal of the listener has fired, the webhook and health routes
\* are unregistered, so that no new request is accepted.
C16_AbortTearsDown == listener.aborted => listener.routes = {}

\* C17: a rejected handleRocketChatMessage inside the follow-up task of the registered
\* route is caught at the task boundary and logged; it does not propagate, it leaves the
\* response already sent as it is, and it leaves the listener (its routes) as it is, so
\* the route keeps serving requests until the listener is aborted.
C17_TaskBoundary ==
    /\ [][(req.entry = "gateway" /\ pc # "done" /\ pc' = "done" /\ outcome' = "threw") =>
            /\ Len(logs') > 0
            /\ logs'[Len(logs')] = Log("error", "Error processing message after response", NoVal)
            /\ Cardinality({i \in 1..Len(logs') :
                    logs'[i] = Log("error", "Error processing message after response", NoVal)}) = 1
            /\ ~CallerPropagates(req.entry, outcome')
            /\ resp = <<RAck>>
            /\ resp' = resp
            /\ listener' = listener]_vars
    /\ []((Len(history) > 0 /\ history[1].outcome = "threw" /\ listener = Running /\ pc = "idle") =>
            ENABLED GatewayRequest("GET", "text/plain", [kind |-> "text", fields |-> NoFields]))
C17_Witness ==
    /\ Len(history) = 1
    /\ history[1].entry = "gateway"
    /\ history[1].outcome = "threw"
    /\ req.entry = "gateway"
    /\ req.method = "POST"
    /\ resp = <<RAck>>

\* C18: on the session path the outbound text is the input text followed by exactly one
\* " @<atUserId>" suffix when atUserId is supplied, whether or not markdown is detected,
\* and the input text itself when atUserId is absent; in the pipeline atUserId is
\* supplied only for group messages.
C18_SingleMention ==
    /\ \A i \in 1..Len(sent) :
          sent[i].via = "session" =>
              sent[i].text = IF sent[i].atUserId \in {NoVal, <<>>}
                             THEN sent[i].input
                             ELSE sent[i].input \o <<" ", "@">> \o sent[i].atUserId
    /\ \A i \in 1..Len(sent) :
          (sent[i].purpose # "api" /\ sent[i].atUserId # NoVal) => GroupMessage(data)

\* C19: every provider call (denial notice, thinking notice, reply block, or a call made
\* through the exported sendMessage, on the session path and on the proactive path) is a
\* POST to the configured webhookUrl, never to the URL of the inbound request passed as
\* sessionWebhook, and carries no Authorization header.
C19_ConfiguredWebhookOnly ==
    \A i \in 1..Len(sent) :
        /\ sent[i].method = "POST"
        /\ sent[i].url = cfg.webhookUrl
        /\ sent[i].url # InboundUrl
        /\ sent[i].url # req.sessionWebhook
        /\ "Authorization" \notin sent[i].headers
C19_Witness ==
    /\ req.entry = "gateway"
    /\ req.sessionWebhook = InboundUrl
    /\ Len(sent) = 2
    /\ sent[1].purpose = "thinking"
    /\ sent[2].purpose = "reply"
    /\ sent[2].via = "session"
    /\ Len(results) = 2

\* C20: a sendMessage call takes the session path exactly when options.sessionWebhook is
\* present and non-empty and the proactive path otherwise, one provider call per
\* sendMessage call, whatever the text; every send of handleRocketChatMessage takes the
\* session path.
C20_PathByContext ==
    /\ req.entry = "sendMessage" =>
          /\ Len(sent) <= 1
          /\ pc \in {"s_send", "done"} => Len(sent) = 1
          /\ \A i \in 1..Len(sent) :
                /\ sent[i].via \in {"session", "proactive"}
                /\ sent[i].via = "session" <=>
                       (sendIn.options.sessionWebhook # AbsentWebhook /\ sendIn.options.sessionWebhook # "")
    /\ \A i \in 1..Len(sent) :
          sent[i].purpose \in {"denial", "thinking", "reply"} => sent[i].via = "session"
C20_Witness ==
    /\ req.entry = "sendMessage"
    /\ pc = "done"
    /\ sendIn.text = <<"#", "h">>
    /\ sendIn.options.sessionWebhook = ""
    /\ sent[1].via = "proactive"

\* C21: the reply target of a message is the sender's user_id when the message is direct
\* and the channel_id when it is a group message; the route is resolved for the peer with
\* that id (kind dm for direct, group otherwise), the context handed to the host carries it
\* as From, To and OriginatingTo, the session record's last-route target equals it, and
\* every thinking notice and reply is addressed to it.
C21_Target == IF GroupMessage(data) THEN data.channel_id ELSE data.user_id
C21_Addressing ==
    /\ ctx.peerKind # "none" =>
          /\ ctx.peerId = C21_Target
          /\ ctx.peerKind = (IF GroupMessage(data) THEN "group" ELSE "dm")
    /\ InSeq("record", events) =>
          /\ ctx.From = C21_Target
          /\ ctx.To = C21_Target
          /\ ctx.OriginatingTo = C21_Target
          /\ ctx.lastRouteTo = C21_Target
    /\ \A i \in 1..Len(sent) :
          sent[i].purpose \in {"thinking", "reply"} => sent[i].to = C21_Target
    /\ (HandleRan /\ ~InSeq("route", events)) => ctx = NoCtx
C21_Witness ==
    /\ GroupMessage(data)
    /\ data.user_id = U1
    /\ ctx.peerKind = "group"
    /\ ctx.To = ChanId
    /\ ctx.lastRouteTo = ChanId
    /\ Len(sent) = 2
    /\ sent[1].purpose = "thinking"
    /\ sent[2].purpose = "reply"
    /\ sent[2].to = ChanId
    /\ pc = "done"

\* C22: a message is direct exactly when its channel_name is absent, null or empty, or
\* starts with "@", and a group message otherwise; the chat type of the envelope and of the
\* context and the kind of the route peer agree with that classification.
C22_Direct == data.channel_name = NoVal \/ data.channel_name = <<>> \/ Head(data.channel_name) = "@"
C22_Classification ==
    /\ ctx.peerKind # "none" => ctx.peerKind = (IF C22_Direct THEN "dm" ELSE "group")
    /\ ctx.chatType # "none" => ctx.chatType = (IF C22_Direct THEN "direct" ELSE "group")
    /\ ctx.ChatType # "none" => ctx.ChatType = (IF C22_Direct THEN "direct" ELSE "group")
    /\ InSeq("route", events) => ctx.peerKind # "none"
    /\ InSeq("envelope", events) => ctx.chatType # "none"
    /\ InSeq("record", events) => ctx.ChatType # "none"
C22_Witness ==
    /\ data.channel_name = <<>>
    /\ ctx.peerKind = "dm"
    /\ ctx.chatType = "direct"
    /\ ctx.ChatType = "direct"
    /\ pc = "done"
C22_WitnessGroup ==
    /\ data.channel_name = <<"g","@","n">>
    /\ ctx.peerKind = "group"
    /\ ctx.ChatType = "group"
    /\ pc = "done"

\* C24: under dmPolicy open and pairing a direct message is never denied, whoever the
\* sender and whatever allowFrom holds: no denial notice is sent, the message is routed,
\* and the context handed to the host has CommandAuthorized = true.
C24_OpenOrPairing == cfg.dmPolicy \in {"open", "pairing"} /\ ~GroupMessage(data)
C24_NeverDenied ==
    (HandleRan /\ C24_OpenOrPairing /\ data.token = AuthToken /\ data.bot = JsFalse /\ ~BlankText(data)) =>
        /\ ~InSeq("denial", events)
        /\ \A i \in 1..Len(sent) : sent[i].purpose # "denial"
        /\ InSeq("route", events)
        /\ InSeq("record", events) => ctx.CommandAuthorized = "true"
        /\ ctx.CommandAuthorized \in {"none", "true"}
C24_Witness ==
    /\ cfg.dmPolicy = "pairing"
    /\ cfg.allowFrom = << <<"u","2">> >>
    /\ data.user_id = U1
    /\ data.channel_name = NoVal
    /\ InSeq("dispatch", events)
    /\ ctx.CommandAuthorized = "true"
    /\ pc = "done"

\* C25: an unset dmPolicy behaves as "open" (no direct message is denied), an unset
\* showThinking behaves as true (the thinking notice is attempted before the dispatch), and
\* an unset groupPolicy behaves as "open": resolveRequireMention returns false for it as
\* for an explicit "open".
C25_Defaults ==
    /\ cfg.dmPolicy = "unset" => ~InSeq("denial", events)
    /\ (cfg.showThinking = "unset" /\ InSeq("dispatch", events)) => InSeq("thinking", events)
    /\ (requireMention # "none" /\ cfg.groupPolicy \in {"unset", "open"}) => requireMention = "false"

\* C26: a GET to the registered route is answered 200 with the plain-text body
\* "Rocket.Chat webhook is active"; a method other than GET and POST is answered 405 with
\* Allow: GET, POST; in neither case is the body read, the token checked or any processing
\* scheduled, whatever the request carries.
C26_MethodDispatch ==
    (req.entry = "gateway" /\ req.method # "POST") =>
        /\ pc = "done"
        /\ resp = <<IF req.method = "GET" THEN RH(200, "Rocket.Chat webhook is active", "text/plain", "none")
                    ELSE RH(405, "{error: Method Not Allowed}", "application/json", "GET, POST")>>
        /\ data = NoFields
        /\ ~HandleCalled
        /\ events = <<>>
        /\ sent = <<>>
        /\ \A i \in 1..Len(logs) : logs[i].level = "debug"
C26_Witness ==
    /\ req.entry = "gateway"
    /\ req.method = "PUT"
    /\ req.body.kind = "json"
    /\ req.body.fields.token = AuthToken
    /\ resp[1].status = 405
    /\ resp[1].allow = "GET, POST"
C26_WitnessGet ==
    /\ req.entry = "gateway"
    /\ req.method = "GET"
    /\ req.body.kind = "json"
    /\ req.body.fields.token = AuthToken
    /\ resp[1].status = 200
    /\ resp[1].ctype = "text/plain"

\* C23: for every allow-list entry that carries a provider prefix (rocketchat:, rc: or
\* rocket:, in any letter case) normalization strips exactly one leading prefix ("rc:rc:u1"
\* becomes "rc:u1", a prefix that is not at the start is kept), the comparison form of every
\* entry is its lower-cased normal form, and a sender id is matched against the list without
\* regard to letter case on either side.
C23_Prefixes == {PrefixRocketchat, PrefixRc, PrefixRocket}
C23_Kept == SelectSeq(TrimmedEntries(allowIn), NotStar)
C23_OnePrefixOff(e, n) ==
    IF \E p \in C23_Prefixes : Len(e) >= Len(p) /\ ToLower(SubSeq(e, 1, Len(p))) = p
    THEN \E p \in C23_Prefixes : Len(e) >= Len(p) /\ ToLower(SubSeq(e, 1, Len(p))) = p
                                  /\ e = SubSeq(e, 1, Len(p)) \o n
    ELSE n = e
C23_Normalization ==
    allowOut # "none" =>
        /\ Len(normOut.entries) = Len(C23_Kept)
        /\ Len(normOut.entriesLower) = Len(C23_Kept)
        /\ \A i \in 1..Len(C23_Kept) :
              /\ C23_OnePrefixOff(C23_Kept[i], normOut.entries[i])
              /\ normOut.entriesLower[i] = ToLower(normOut.entries[i])
        /\ (normOut.hasEntries /\ ~normOut.hasWildcard /\ senderIn \notin {NoVal, <<>>}) =>
              (allowOut = "allowed" <=>
                  \E i \in 1..Len(normOut.entries) : ToLower(normOut.entries[i]) = ToLower(senderIn))
C23_Witness ==
    /\ allowIn = << <<"r","c",":","r","c",":","u","1">>, <<"R","o","c","k","e","t",":","u","1">> >>
    /\ senderIn = <<"U","1">>
    /\ normOut.entries = << <<"r","c",":","u","1">>, <<"u","1">> >>
    /\ allowOut = "allowed"
C23_WitnessKept ==
    /\ allowIn = << <<"x","r","c",":","u","1">> >>
    /\ senderIn = <<"u","1">>
    /\ normOut.entriesLower = << <<"x","r","c",":","u","1">> >>
    /\ allowOut = "denied"

\* C27: detectMarkdown yields false whenever options.useMarkdown is false, true whenever it
\* is true, and, when it is unset, true exactly when the text starts with "#", "*", ">" or
\* "-", or contains "*", "_", a backtick, "#", "[" or "]", or contains a newline; so "hello"
\* yields false and "# hello" followed by a newline and "world" yields true.
C27_StartsWithLeader == mdIn.text # <<>> /\ Head(mdIn.text) \in {"#", "*", ">", "-"}
C27_HasMarkdownChar == \E i \in 1..Len(mdIn.text) : mdIn.text[i] \in {"*", "_", Backquote, "#", "[", "]", "\n"}
C27_DetectMarkdown ==
    mdOut # "none" =>
        /\ mdIn.useMarkdown = "false" => mdOut = "false"
        /\ mdIn.useMarkdown = "true" => mdOut = "true"
        /\ mdIn.useMarkdown = "unset" =>
              (mdOut = "true" <=> (C27_StartsWithLeader \/ C27_HasMarkdownChar))
        /\ (mdIn.useMarkdown = "unset" /\ mdIn.text = Hello) => mdOut = "false"
        /\ (mdIn.useMarkdown = "unset" /\ mdIn.text = HelloWorld) => mdOut = "true"
C27_Witness ==
    /\ mdIn.useMarkdown = "unset"
    /\ mdIn.text = <<"-", "h">>
    /\ mdOut = "true"
C27_WitnessHello ==
    /\ mdIn = [text |-> Hello, useMarkdown |-> "unset"]
    /\ mdOut = "false"
C27_WitnessExplicit ==
    /\ mdIn = [text |-> HelloWorld, useMarkdown |-> "false"]
    /\ mdOut = "false"

\* C28: sendMessage mutates no shared module state: across any sequence of sendMessage
\* calls, two calls with identical arguments included, the logger slot and the
\* activeCardsByTarget map keep their values, and each call settles with its own
\* DeliveryResult, determined only by the outcome of that call's provider call.
C28_OwnResult(out, res) ==
    /\ Len(res) = 1
    /\ out.settled = "resolved"
    /\ out.ok = (res[1] = "ok")
    /\ out.error = NoVal <=> res[1] = "ok"
C28_NoSharedState ==
    /\ [][currentLogger' = currentLogger /\ activeCardsByTarget' = activeCardsByTarget]_vars
    /\ []((req.entry = "sendMessage" /\ pc = "done") => C28_OwnResult(sendOut, results))
    /\ [](\A i \in 1..Len(history) :
            history[i].entry = "sendMessage" => C28_OwnResult(history[i].sendOut, history[i].results))
C28_Witness ==
    /\ Len(history) = 1
    /\ history[1].entry = "sendMessage"
    /\ req.entry = "sendMessage"
    /\ pc = "done"
    /\ history[1].sendIn = sendIn
    /\ sendIn.options.log
    /\ history[1].sendOut.ok
    /\ ~sendOut.ok
    /\ ~currentLogger
    /\ activeCardsByTarget = {}

\* C30: no log line, at any level, contains the account's configured authToken or a token
\* value received with a request; token-bearing fields appear only as "[MASKED]".
C30_TokenValues == ({AuthToken, req.body.fields.token, data.token}) \ {NoVal}
C30_TokensMasked ==
    \A i \in 1..Len(logs) : \A t \in C30_TokenValues : ~Contains(logs[i].value, t)

\* C31: a message is processed in a fixed order: token check, bot filter, text
\* normalization, authorization gate, route resolution (once), continuity-marker read,
\* envelope construction (once), session record, thinking notice, host dispatcher; each
\* early return wins over every later stage, and a denied message causes no route
\* resolution and no session-store access.
C31_Rank(e) ==
    CASE e = "denial" -> 0
      [] e = "route" -> 1
      [] e = "store_read" -> 2
      [] e = "envelope" -> 3
      [] e = "record" -> 4
      [] e \in {"record_ok", "record_error", "record_reject"} -> 5
      [] e = "thinking" -> 6
      [] e = "dispatch" -> 7
      [] OTHER -> 8
C31_Logged(msg) == \E i \in 1..Len(logs) : logs[i].msg = msg
C31_PipelineOrder ==
    /\ \A i, j \in 1..Len(events) :
          i < j => /\ C31_Rank(events[i]) <= C31_Rank(events[j])
                   /\ C31_Rank(events[i]) < 8 => C31_Rank(events[i]) < C31_Rank(events[j])
    /\ \A j \in 2..Len(events) :
          C31_Rank(events[j]) \in 2..5 => C31_Rank(events[j - 1]) = C31_Rank(events[j]) - 1
    /\ InSeq("thinking", events) => Recorded
    /\ InSeq("dispatch", events) => Recorded
    /\ InSeq("denial", events) => events = <<"denial">>
    /\ (HandleRan /\ data.token # AuthToken) =>
          /\ events = <<>>
          /\ ~C31_Logged("Ignoring robot self-message")
          /\ ~C31_Logged("DM blocked")
    /\ (HandleRan /\ data.token = AuthToken /\ Truthy(data.bot)) =>
          /\ events = <<>>
          /\ C31_Logged("Ignoring robot self-message")
          /\ ~C31_Logged("DM blocked")
    /\ (HandleRan /\ data.token = AuthToken /\ ~Truthy(data.bot) /\ BlankText(data)) =>
          /\ events = <<>>
          /\ ~C31_Logged("DM blocked")
    /\ (HandleRan /\ data.token = AuthToken /\ ~Truthy(data.bot) /\ ~BlankText(data)) =>
          /\ events # <<>>
          /\ events[1] \in {"denial", "route"}
          /\ events[1] = "denial" <=> C31_Logged("DM blocked")
C31_Witness ==
    /\ cfg.dmPolicy = "allowlist"
    /\ cfg.allowFrom = << <<"u","2">> >>
    /\ data.user_id = U2
    /\ data.channel_name = NoVal
    /\ C31_Logged("DM authorized")
    /\ Len(events) >= 8
    /\ SubSeq(events, 1, 8) = <<"route", "store_read", "envelope", "record", "record_ok",
                                 "thinking", "dispatch", "deliver">>
    /\ pc = "done"

\* C32: every request to the registered webhook route gets at most one response, on every
\* path; a GET, a request with another method, and a POST whose body has been received get
\* exactly one; and a failure of the processing that follows the acknowledgment writes no
\* second response.
C32_OneResponse ==
    req.entry = "gateway" =>
        /\ Len(resp) <= 1
        /\ pc = "body" => resp = <<>>
        /\ pc # "body" => (Len(resp) = 1 /\ resp[1].status \in {200, 400, 401, 405, 500})
        /\ req.method # "POST" => pc = "done"
        /\ outcome # "none" => (Len(resp) = 1 /\ resp[1].status = 200)
C32_Witness ==
    /\ req.entry = "gateway"
    /\ req.method = "POST"
    /\ pc = "done"
    /\ outcome = "threw"
    /\ InSeq("dispatch", events)
    /\ Len(resp) = 1

\* C33: for a payload with the right token whose bot field is set, handleRocketChatMessage
\* returns right after the token check with no side effect: no authorization evaluation, no
\* denial notice, no route resolution, no session record, no thinking notice and no reply.
C33_BotSet == data.bot # NoVal /\ data.bot # JsFalse /\ data.bot # <<>>
C33_BotFilter ==
    (HandleRan /\ data.token = AuthToken /\ C33_BotSet) =>
        /\ pc = "done"
        /\ outcome = "returned"
        /\ events = <<>>
        /\ sent = <<>>
        /\ emitted = <<>>
        /\ ctx = NoCtx
        /\ \A i \in 1..Len(logs) : logs[i].msg \notin {"DM blocked", "DM authorized", "Inbound"}
C33_Witness ==
    /\ req.entry = "gateway"
    /\ data.token = AuthToken
    /\ data.bot = JsTrue
    /\ data.text = <<"h","i">>
    /\ data.user_id = U1
    /\ data.channel_name = NoVal
    /\ cfg.dmPolicy = "allowlist"
    /\ cfg.allowFrom = << <<"u","2">> >>
    /\ pc = "done"
    /\ outcome = "returned"
    /\ resp = <<RAck>>

\* C34: a request to the registered route that carries the same field values gets the same
\* HTTP status and the same processing whether it is sent as application/json, as
\* application/x-www-form-urlencoded with plain fields, or as form data wrapping the JSON in
\* a payload field; in particular a form-encoded message with bot=false is processed, not
\* dropped as a bot message.
C34_WellEncoded ==
    \/ req.ct = "application/json" /\ req.body.kind = "json"
    \/ req.ct = "application/x-www-form-urlencoded" /\ req.body.kind \in {"form", "formpayload"}
C34_AsJson ==
    IF req.body.fields.token # AuthToken THEN RUnauthorizedToken
    ELSE IF MissingOrEmpty(req.body.fields.user_id) \/ MissingOrEmpty(req.body.fields.text)
    THEN RMissingFields
    ELSE RAck
C34_BotFalse == data.bot = JsFalse \/ data.bot = <<"f","a","l","s","e">>
C34_EncodingIndependence ==
    /\ (GatewayPostHeld /\ C34_WellEncoded /\ pc # "body") => resp = <<C34_AsJson>>
    /\ (req.entry = "gateway" /\ HandleRan /\ data.token = AuthToken /\ C34_BotFalse
            /\ ~BlankText(data)) =>
          /\ events # <<>>
          /\ events[1] = "denial" <=> (~GroupMessage(data) /\ cfg.dmPolicy = "allowlist"
                                        /\ ~AllowRule(cfg.allowFrom, data.user_id))

\* C35: once the listener of an account has been stopped, by the abort signal or by the
\* returned stop() function and in either order of the two, the routes that start
\* registered are eventually unregistered, and they are unregistered at most once: the
\* registered set only ever changes from what the start registered to nothing.
C35_StopTearsDown ==
    /\ [](listener.stopped => <>(listener.routes = {}))
    /\ [][(listener.started /\ listener'.routes # listener.routes) =>
              (listener.routes # {} /\ listener'.routes = {})]_vars

\* C36: with two starts of one account id, the abort signal of a start unregisters the
\* routes of that start (when the start registered both and its stop() has not been
\* called) and leaves the routes of the other start registered.
C36_ScopedTeardown ==
    [][/\ (~listener.aborted /\ listener'.aborted) =>
            /\ listener'.again.routes = listener.again.routes
            /\ (listener.routes = Routes /\ ~listener.stopped) => listener'.routes = {}
       /\ (~listener.again.aborted /\ listener'.again.aborted) =>
            /\ listener'.routes = listener.routes
            /\ (listener.again.routes = Routes /\ ~listener.again.stopped) =>
                    listener'.again.routes = {}]_vars

\* C37: startAccount rejects when the account has no authToken and registers no route
\* then; with the token it resolves with a stop handle whatever happens while the routes
\* are registered, and it leaves either both routes registered and tracked for
\* unregistration, or no route registered and none tracked.
C37_StartUp ==
    /\ listener.result = "rejected" => (~listener.started /\ listener.routes = {})
    /\ listener.started => listener.result = "resolved"
    /\ (listener.started /\ ~listener.stopped /\ ~listener.aborted) =>
          \/ listener.routes = Routes /\ listener.unregisterFn = "first"
          \/ listener.routes = {} /\ listener.unregisterFn = "none"

====
